---------------------------- MODULE Spec2Model ----------------------------
(* A model of scop's Wavefront pipeline: Obj::from_string (src/wavefront.rs) *)
(* parses a text line by line into positions, uvs, normals and faces, and    *)
(* MeshData::from (src/renderer/mesh.rs) fan-triangulates the faces and      *)
(* merges equal face attributes into an indexed mesh.                        *)
(*                                                                           *)
(* Texts are TLA+ strings and every conversion works on their characters:    *)
(* lines, trim, split_whitespace, split("/"), u32 and f32 parsing.           *)
(* An f32 is modelled in thousandths (1.0 is 1000): decimal literals with    *)
(* an optional sign and up to three fractional digits are exact, further     *)
(* digits are dropped. The exponent forms are not in any text of the model.  *)
(* NaN and the infinities are integers no literal of the texts comes near:   *)
(* F32NaN, F32Inf and its negative.                                          *)
(* Option<T> is a sequence: None is <<>> and Some(x) is <<x>>.               *)
EXTENDS Integers, Sequences, FiniteSets, TLC

VARIABLES
    data,        \* from_string's data: the text
    file_name,   \* from_string's file_name: Option<&str>
    pc,          \* where the pipeline stands
    lines,       \* data.lines()
    i,           \* the 0-based index of the next line (enumerate)
    positions,   \* from_string's positions: Vec<Vec4>
    uvs,         \* from_string's uvs: Vec<Vec3>
    normals,     \* from_string's normals: Vec<Vec3>
    faces,       \* from_string's faces: Vec<Face>
    result,      \* what from_string returned: None, Some(Ok) or Some(Err)
    stderr,      \* what handle_obj_error printed
    f,           \* MeshData::from: the 0-based index of the next face
    triangles,   \* MeshData::from: the triangles of the current face
    t,           \* the 0-based index of the current triangle
    a,           \* the 0-based index of the next attribute of that triangle
    processed_attributes, \* HashMap<FaceAttribute, usize>
    m_positions, \* MeshData.positions: Vec<f32>
    m_uvs,       \* MeshData.uvs: Vec<f32>
    m_normals,   \* MeshData.normals: Vec<f32>
    indices,     \* MeshData.indices: Vec<u32>
    panic,       \* None, or Some(the panic that ended the process)
    path,        \* from_file's path, None when from_string is called directly
    state_bounding_box, \* load_model's state.bounding_box
    state_meshes,       \* state.meshes: target and bounding_box
    state_objects,      \* state.objects: target and bounding_box
    previous,    \* what the load before this one gave, None for the first
    targa        \* the call of Targa::from_file: its data, header and bytes

parse_vars == <<lines, i, positions, uvs, normals, faces, result>>
mesh_vars == <<f, triangles, t, a, processed_attributes, m_positions, m_uvs,
               m_normals, indices>>
load_vars == <<path, state_bounding_box, state_meshes, state_objects, previous,
               targa>>
vars == <<data, file_name, pc, parse_vars, stderr, mesh_vars, panic, load_vars>>

None == <<>>
Some(x) == <<x>>

-----------------------------------------------------------------------------
(* Strings.                                                                  *)

Char(s, k) == SubSeq(s, k, k)

Drop(s, n) == SubSeq(s, n + 1, Len(s))

IsWhitespace(c) == c \in {" ", "\t", "\r", "\n"}

IsDigit(c) == c \in {"0", "1", "2", "3", "4", "5", "6", "7", "8", "9"}

DigitValue(c) ==
    CASE c = "0" -> 0 [] c = "1" -> 1 [] c = "2" -> 2 [] c = "3" -> 3
      [] c = "4" -> 4 [] c = "5" -> 5 [] c = "6" -> 6 [] c = "7" -> 7
      [] c = "8" -> 8 [] c = "9" -> 9

\* The index of the first occurrence of character c in s at or after k, 0 if
\* there is none.
RECURSIVE FindFrom(_, _, _)
FindFrom(s, c, k) ==
    IF k > Len(s) THEN 0
    ELSE IF Char(s, k) = c THEN k
    ELSE FindFrom(s, c, k + 1)

\* The parts of s from index k on.
RECURSIVE SplitFrom(_, _, _)
SplitFrom(s, sep, k) ==
    LET n == FindFrom(s, sep, k) IN
    IF n = 0 THEN <<SubSeq(s, k, Len(s))>>
    ELSE <<SubSeq(s, k, n - 1)>> \o SplitFrom(s, sep, n + 1)

\* str::split(sep) for a one-character separator: the parts between the
\* separators, empty ones included; the empty string has one empty part.
Split(s, sep) == SplitFrom(s, sep, 1)

\* str::lines(): split at "\n", a final empty line dropped, the "\r" of a
\* line ending "\r\n" dropped.
StripCr(s) ==
    IF Len(s) > 0 /\ Char(s, Len(s)) = "\r" THEN SubSeq(s, 1, Len(s) - 1) ELSE s

Lines(s) ==
    LET parts == Split(s, "\n")
        kept == IF parts[Len(parts)] = "" THEN SubSeq(parts, 1, Len(parts) - 1)
                ELSE parts
    IN [k \in 1..Len(kept) |-> StripCr(kept[k])]

\* The index of the first character at or after k that is not whitespace,
\* Len(s) + 1 if there is none.
RECURSIVE SkipWhitespace(_, _)
SkipWhitespace(s, k) ==
    IF k <= Len(s) /\ IsWhitespace(Char(s, k)) THEN SkipWhitespace(s, k + 1) ELSE k

\* The index of the last character at or before k that is not whitespace, 0
\* if there is none.
RECURSIVE SkipWhitespaceBack(_, _)
SkipWhitespaceBack(s, k) ==
    IF k >= 1 /\ IsWhitespace(Char(s, k)) THEN SkipWhitespaceBack(s, k - 1) ELSE k

\* str::trim()
Trim(s) == SubSeq(s, SkipWhitespace(s, 1), SkipWhitespaceBack(s, Len(s)))

\* The index of the last character of the word that starts at k.
RECURSIVE WordEnd(_, _)
WordEnd(s, k) ==
    IF k < Len(s) /\ ~IsWhitespace(Char(s, k + 1)) THEN WordEnd(s, k + 1) ELSE k

\* The words of s from index k on.
RECURSIVE WordsFrom(_, _)
WordsFrom(s, k) ==
    LET start == SkipWhitespace(s, k) IN
    IF start > Len(s) THEN <<>>
    ELSE LET end == WordEnd(s, start) IN
         <<SubSeq(s, start, end)>> \o WordsFrom(s, end + 1)

\* str::split_whitespace(): the maximal whitespace-free substrings.
SplitWhitespace(s) == WordsFrom(s, 1)

StartsWith(s, p) == Len(s) >= Len(p) /\ SubSeq(s, 1, Len(p)) = p

AllDigits(s) == \A k \in 1..Len(s) : IsDigit(Char(s, k))

\* The value of the digits of s from index k on, after the value acc.
RECURSIVE DigitsValueFrom(_, _, _)
DigitsValueFrom(s, k, acc) ==
    IF k > Len(s) THEN acc
    ELSE DigitsValueFrom(s, k + 1, 10 * acc + DigitValue(Char(s, k)))

DigitsValue(s) == DigitsValueFrom(s, 1, 0)

Ok(v) == [ok |-> TRUE, val |-> v]
Err(e) == [ok |-> FALSE, err |-> e]

\* str::parse::<u32>(): an optional "+" and at least one digit. The texts of
\* the model hold no literal near u32::MAX, so PosOverflow does not arise.
ParseU32(s) ==
    IF Len(s) = 0 THEN Err("Empty")
    ELSE LET body == IF Char(s, 1) = "+" THEN Drop(s, 1) ELSE s IN
         IF Len(body) = 0 \/ ~AllDigits(body) THEN Err("InvalidDigit")
         ELSE Ok(DigitsValue(body))

\* The f32 values that are no numbers: NaN and the positive infinity.
F32NaN == 0 - 2147483647
F32Inf == 2147483646

\* The letters of "nan", "inf" and "infinity", in lower case.
ToLower(c) ==
    CASE c = "A" -> "a" [] c = "F" -> "f" [] c = "I" -> "i" [] c = "N" -> "n"
      [] c = "T" -> "t" [] c = "Y" -> "y" [] OTHER -> c

\* str::eq_ignore_ascii_case for a lower-case word.
EqIgnoreCase(s, word) ==
    /\ Len(s) = Len(word)
    /\ \A k \in 1..Len(s) : ToLower(Char(s, k)) = Char(word, k)

\* The first three fractional digits, in thousandths.
FractionValue(s) ==
    DigitsValue(SubSeq(s \o "000", 1, 3))

\* str::parse::<f32>(): an optional sign, then "nan", "inf" or "infinity"
\* in any case, or digits with an optional "." among them and at least one
\* digit.
ParseF32(s) ==
    IF Len(s) = 0 THEN Err("Empty")
    ELSE LET signed == Char(s, 1) \in {"+", "-"}
             body == IF signed THEN Drop(s, 1) ELSE s
             dot == FindFrom(body, ".", 1)
             whole == IF dot = 0 THEN body ELSE SubSeq(body, 1, dot - 1)
             frac == IF dot = 0 THEN "" ELSE Drop(body, dot)
             magnitude == 1000 * DigitsValue(whole) + FractionValue(frac)
         IN IF EqIgnoreCase(body, "nan") THEN Ok(F32NaN)
            ELSE IF EqIgnoreCase(body, "inf") \/ EqIgnoreCase(body, "infinity")
            THEN Ok(IF Char(s, 1) = "-" THEN 0 - F32Inf ELSE F32Inf)
            ELSE IF Len(whole) + Len(frac) = 0 \/ ~AllDigits(whole)
                    \/ ~AllDigits(frac)
            THEN Err("Invalid")
            ELSE Ok(IF Char(s, 1) = "-" THEN 0 - magnitude ELSE magnitude)


-----------------------------------------------------------------------------
(* Obj::from_string and its helpers (src/wavefront.rs).                      *)

\* usize::MAX. TLC's integers have 32 bits, so the largest of them stands for
\* it; every operand count of the model is far below.
UsizeMax == 2147483647

\* Every missing component taken as 0.0.
GetOrZero(s, k, default) == IF k < Len(s) THEN s[k + 1] ELSE 0

\* slice.get(k).unwrap_or(&default), k 0-based.
GetOr(s, k, default) == IF k < Len(s) THEN s[k + 1] ELSE default

\* Bounds taken as exclusive: a count equal to min or to max is refused.
check_operand_length_exclusive(min, max, val) ==
    LET max1 == IF max = 0 THEN UsizeMax ELSE max IN
    IF val <= min \/ val >= max1
    THEN Some([kind |-> "InvalidOperandCount",
               expected |-> <<IF min = 0 THEN None ELSE Some(min),
                              IF max1 = 0 THEN None ELSE Some(max1)>>,
               got |-> val])
    ELSE None

check_operand_length(min, max, val) ==
    LET max1 == IF max = 0 THEN UsizeMax ELSE max IN
    IF val < min \/ val > max1
    THEN Some([kind |-> "InvalidOperandCount",
               expected |-> <<IF min = 0 THEN None ELSE Some(min),
                              IF max1 = 0 THEN None ELSE Some(max1)>>,
               got |-> val])
    ELSE None

\* The loop of parse_floats_from_line: floats is what was pushed so far.
RECURSIVE parse_floats_loop(_, _)
parse_floats_loop(operands, floats) ==
    IF Len(operands) = 0 THEN Ok(floats)
    ELSE LET r == ParseF32(Head(operands)) IN
         IF r.ok THEN parse_floats_loop(Tail(operands), Append(floats, r.val))
         ELSE r

parse_floats_from_line(operands) == parse_floats_loop(operands, <<>>)

\* An empty sub-field parsed like any other: it is no number.
parse_face_part_strict(parts, k) ==
    IF k < Len(parts)
    THEN LET r == ParseU32(parts[k + 1]) IN
         IF r.ok THEN Ok(Some(r.val)) ELSE r
    ELSE Ok(None)

\* A uv or normal sub-field of a face operand: parts.get(k), k 0-based.
parse_face_part(parts, k) ==
    IF k < Len(parts)
    THEN IF parts[k + 1] = "" THEN Ok(None)
         ELSE LET r == ParseU32(parts[k + 1]) IN
              IF r.ok THEN Ok(Some(r.val)) ELSE r
    ELSE Ok(None)

parse_face_operand(operand) ==
    LET parts == Split(operand, "/")
        p == ParseU32(parts[1])
        uv == parse_face_part(parts, 1)
        n == parse_face_part(parts, 2)
    IN IF ~p.ok THEN p
       ELSE IF ~uv.ok THEN uv
       ELSE IF ~n.ok THEN n
       ELSE Ok([position_index |-> p.val,
                texture_coordinate_index |-> uv.val,
                normal_index |-> n.val])

\* The loop of parse_face_from_line: ret is what was pushed so far.
RECURSIVE parse_face_loop(_, _)
parse_face_loop(operands, ret) ==
    IF Len(operands) = 0 THEN Ok(ret)
    ELSE LET r == parse_face_operand(Head(operands)) IN
         IF r.ok THEN parse_face_loop(Tail(operands), Append(ret, r.val))
         ELSE r

parse_face_from_line(operands) == parse_face_loop(operands, <<>>)

\* The 0-based index of enumerate() reported as it is.
parse_error_zero_based(file, line, detail) ==
    [file |-> file, line |-> line, detail |-> detail]

parse_error(file, line, detail) ==
    [file |-> file, line |-> line + 1, detail |-> detail]

\* The position put before the others instead of after them.
handle_positions_line_front(file, line, operands, array) ==
    LET count == check_operand_length(3, 4, Len(operands))
        coordinates == parse_floats_from_line(operands)
    IN IF count # None THEN Err(parse_error(file, line, count[1]))
       ELSE IF ~coordinates.ok
       THEN Err(parse_error(file, line,
                [kind |-> "VertexParseFloatError", error |-> coordinates.err]))
       ELSE Ok(<<<<GetOr(coordinates.val, 0, 0),
                   GetOr(coordinates.val, 1, 0),
                   GetOr(coordinates.val, 2, 0),
                   GetOr(coordinates.val, 3, 1000)>>>> \o array)

\* Each handler returns Ok(the array after the push) or Err(the error).
handle_positions_line(file, line, operands, array) ==
    LET count == check_operand_length(3, 4, Len(operands))
        coordinates == parse_floats_from_line(operands)
    IN IF count # None THEN Err(parse_error(file, line, count[1]))
       ELSE IF ~coordinates.ok
       THEN Err(parse_error(file, line,
                [kind |-> "VertexParseFloatError", error |-> coordinates.err]))
       ELSE Ok(Append(array, <<GetOr(coordinates.val, 0, 0),
                               GetOr(coordinates.val, 1, 0),
                               GetOr(coordinates.val, 2, 0),
                               GetOr(coordinates.val, 3, 1000)>>))

\* No check of the number of operands: a face of any length is stored.
handle_face_line_any_count(file, line, operands, array) ==
    LET face_data == parse_face_from_line(operands)
    IN IF ~face_data.ok
       THEN Err(parse_error(file, line,
                [kind |-> "FaceParseIntError", error |-> face_data.err]))
       ELSE IF \E k \in 1..Len(face_data.val) :
                    face_data.val[k].position_index = 0
       THEN Err(parse_error(file, line,
                [kind |-> "InvalidFaceOperand", value |-> 0]))
       ELSE Ok(Append(array, [attributes |-> face_data.val]))

\* No check of the position indices: a face with index 0 is stored.
handle_face_line_unchecked(file, line, operands, array) ==
    LET count == check_operand_length(3, 0, Len(operands))
        face_data == parse_face_from_line(operands)
    IN IF count # None THEN Err(parse_error(file, line, count[1]))
       ELSE IF ~face_data.ok
       THEN Err(parse_error(file, line,
                [kind |-> "FaceParseIntError", error |-> face_data.err]))
       ELSE Ok(Append(array, [attributes |-> face_data.val]))

handle_face_line(file, line, operands, array) ==
    LET count == check_operand_length(3, 0, Len(operands))
        face_data == parse_face_from_line(operands)
    IN IF count # None THEN Err(parse_error(file, line, count[1]))
       ELSE IF ~face_data.ok
       THEN Err(parse_error(file, line,
                [kind |-> "FaceParseIntError", error |-> face_data.err]))
       ELSE IF \E k \in 1..Len(face_data.val) :
                    face_data.val[k].position_index = 0
       THEN Err(parse_error(file, line,
                [kind |-> "InvalidFaceOperand", value |-> 0]))
       ELSE Ok(Append(array, [attributes |-> face_data.val]))

handle_uv_line(file, line, operands, array) ==
    LET count == check_operand_length(1, 3, Len(operands))
        uv_floats == parse_floats_from_line(operands)
    IN IF count # None THEN Err(parse_error(file, line, count[1]))
       ELSE IF ~uv_floats.ok
       THEN Err(parse_error(file, line,
                [kind |-> "UVParseFloatError", error |-> uv_floats.err]))
       ELSE Ok(Append(array, <<GetOr(uv_floats.val, 0, 0),
                               GetOr(uv_floats.val, 1, 0),
                               GetOr(uv_floats.val, 2, 0)>>))

\* The operands parsed before they are counted.
handle_normal_line_parse_first(file, line, operands, array) ==
    LET count == check_operand_length(3, 3, Len(operands))
        normal_floats == parse_floats_from_line(operands)
    IN IF ~normal_floats.ok
       THEN Err(parse_error(file, line,
                [kind |-> "NormalParseFloatError", error |-> normal_floats.err]))
       ELSE IF count # None THEN Err(parse_error(file, line, count[1]))
       ELSE Ok(Append(array, <<GetOr(normal_floats.val, 0, 0),
                               GetOr(normal_floats.val, 1, 0),
                               GetOr(normal_floats.val, 2, 0)>>))

handle_normal_line(file, line, operands, array) ==
    LET count == check_operand_length(3, 3, Len(operands))
        normal_floats == parse_floats_from_line(operands)
    IN IF count # None THEN Err(parse_error(file, line, count[1]))
       ELSE IF ~normal_floats.ok
       THEN Err(parse_error(file, line,
                [kind |-> "NormalParseFloatError", error |-> normal_floats.err]))
       ELSE Ok(Append(array, <<GetOr(normal_floats.val, 0, 0),
                               GetOr(normal_floats.val, 1, 0),
                               GetOr(normal_floats.val, 2, 0)>>))

\* The g directive not among the discarded ones.
IgnoredCommandsWithoutG == {"mtllib", "usemtl", "s", "o"}

\* The directives from_string accepts and discards.
IgnoredCommands == {"mtllib", "usemtl", "s", "g", "o"}

\* Only a blank line is passed over.
SkippedBlankOnly(line) == Len(line) = 0

\* `continue` in from_string's loop: a blank line or a comment.
Skipped(line) == Len(line) = 0 \/ StartsWith(line, "#")

\* The current line of the loop, trimmed, and its elements.
Line == Trim(lines[i + 1])
Elements == SplitWhitespace(Line)
Operands == Tail(Elements)

InLoop == pc = "lines" /\ i < Len(lines)
Dispatched == InLoop /\ ~Skipped(Line)

\* The error is kept but the loop goes on to the next line.
ReturnLater(error) ==
    /\ result' = Some(Err(error))
    /\ i' = i + 1
    /\ UNCHANGED <<pc, lines, positions, uvs, normals, faces>>

\* The `?` of a handler call: the error returns from from_string at once.
Return(error) ==
    /\ result' = Some(Err(error))
    /\ pc' = "error"
    /\ UNCHANGED <<lines, i, positions, uvs, normals, faces>>

\* The panic of Result::unwrap on an Err.
UnwrapPanic == "called Result::unwrap() on an Err value"

\* from_file is called and has not returned; its path is Some(path).
InFromFile == pc = "from_file"

\* into_string()? on a path that is not valid Unicode: PathError.
FromFilePathError ==
    /\ InFromFile
    /\ ~path[1].unicode
    /\ result' = Some(Err([kind |-> "PathError", path |-> path[1].os]))
    /\ pc' = "error"
    /\ UNCHANGED <<load_vars, data, file_name, lines, i, positions, uvs,
                   normals, faces, stderr, mesh_vars, panic>>

\* File::open(path)? fails: IoError.
FromFileOpenError ==
    /\ InFromFile
    /\ path[1].unicode
    /\ \E error \in {"NotFound", "PermissionDenied"} :
          result' = Some(Err([kind |-> "IoError", error |-> error]))
    /\ pc' = "error"
    /\ UNCHANGED <<load_vars, data, file_name, lines, i, positions, uvs,
                   normals, faces, stderr, mesh_vars, panic>>

\* read_to_string(&mut data).unwrap() on a file that cannot be read, or
\* whose bytes are not valid UTF-8 (InvalidData): the unwrap panics.
FromFileReadPanic ==
    /\ InFromFile
    /\ path[1].unicode
    /\ \E error \in {"InvalidData", "IsADirectory"} :
          panic' = Some([what |-> UnwrapPanic, error |-> error])
    /\ pc' = "panic"
    /\ UNCHANGED <<load_vars, data, file_name, parse_vars, stderr, mesh_vars>>

\* The file is read: from_string is called with its text and Some(path).
FromFile ==
    /\ InFromFile
    /\ path[1].unicode
    /\ file_name' = Some(path[1].os)
    /\ pc' = "from_string"
    /\ UNCHANGED <<load_vars, data, parse_vars, stderr, mesh_vars, panic>>

\* from_string up to its loop: lines() and the four empty arrays.
FromString ==
    /\ pc = "from_string"
    /\ lines' = Lines(data)
    /\ i' = 0
    /\ positions' = <<>>
    /\ uvs' = <<>>
    /\ normals' = <<>>
    /\ faces' = <<>>
    /\ pc' = "lines"
    /\ UNCHANGED <<load_vars, data, file_name, result, stderr, mesh_vars, panic>>

SkipLine ==
    /\ InLoop
    /\ Skipped(Line)
    /\ i' = i + 1
    /\ UNCHANGED <<load_vars, data, file_name, pc, lines, positions, uvs, normals, faces,
                   result, stderr, mesh_vars, panic>>

PositionsLine ==
    /\ Dispatched
    /\ Elements[1] = "v"
    /\ LET r == handle_positions_line(file_name, i, Operands, positions) IN
       IF r.ok
       THEN /\ positions' = r.val
            /\ i' = i + 1
            /\ UNCHANGED <<pc, lines, uvs, normals, faces, result>>
       ELSE Return(r.err)
    /\ UNCHANGED <<load_vars, data, file_name, stderr, mesh_vars, panic>>

\* The indices resolved while parsing: a face is refused when a position it
\* names is not declared yet.
FaceLineResolving ==
    /\ Dispatched
    /\ Elements[1] = "f"
    /\ LET r == handle_face_line(file_name, i, Operands, faces) IN
       IF r.ok /\ \A k \in 1..Len(r.val[Len(r.val)].attributes) :
                      r.val[Len(r.val)].attributes[k].position_index
                          <= Len(positions)
       THEN /\ faces' = r.val
            /\ i' = i + 1
            /\ UNCHANGED <<pc, lines, positions, uvs, normals, result>>
       ELSE Return(parse_error(file_name, i,
                               [kind |-> "InvalidFaceOperand", value |-> 0]))
    /\ UNCHANGED <<load_vars, data, file_name, stderr, mesh_vars, panic>>

FaceLine ==
    /\ Dispatched
    /\ Elements[1] = "f"
    /\ LET r == handle_face_line(file_name, i, Operands, faces) IN
       IF r.ok
       THEN /\ faces' = r.val
            /\ i' = i + 1
            /\ UNCHANGED <<pc, lines, positions, uvs, normals, result>>
       ELSE Return(r.err)
    /\ UNCHANGED <<load_vars, data, file_name, stderr, mesh_vars, panic>>

UvLine ==
    /\ Dispatched
    /\ Elements[1] = "vt"
    /\ LET r == handle_uv_line(file_name, i, Operands, uvs) IN
       IF r.ok
       THEN /\ uvs' = r.val
            /\ i' = i + 1
            /\ UNCHANGED <<pc, lines, positions, normals, faces, result>>
       ELSE Return(r.err)
    /\ UNCHANGED <<load_vars, data, file_name, stderr, mesh_vars, panic>>

NormalLine ==
    /\ Dispatched
    /\ Elements[1] = "vn"
    /\ LET r == handle_normal_line(file_name, i, Operands, normals) IN
       IF r.ok
       THEN /\ normals' = r.val
            /\ i' = i + 1
            /\ UNCHANGED <<pc, lines, positions, uvs, faces, result>>
       ELSE Return(r.err)
    /\ UNCHANGED <<load_vars, data, file_name, stderr, mesh_vars, panic>>

IgnoredLine ==
    /\ Dispatched
    /\ Elements[1] \in IgnoredCommands
    /\ i' = i + 1
    /\ UNCHANGED <<load_vars, data, file_name, pc, lines, positions, uvs, normals, faces,
                   result, stderr, mesh_vars, panic>>

\* The whole line reported instead of its first element.
UnknownLineWholeLine ==
    /\ Dispatched
    /\ Elements[1] \notin {"v", "f", "vt", "vn"} \cup IgnoredCommands
    /\ Return(parse_error(file_name, i,
                          [kind |-> "UnknownCommand", command |-> Line]))
    /\ UNCHANGED <<load_vars, data, file_name, stderr, mesh_vars, panic>>

UnknownLine ==
    /\ Dispatched
    /\ Elements[1] \notin {"v", "f", "vt", "vn"} \cup IgnoredCommands
    /\ Return(parse_error(file_name, i,
                          [kind |-> "UnknownCommand", command |-> Elements[1]]))
    /\ UNCHANGED <<load_vars, data, file_name, stderr, mesh_vars, panic>>

\* The loop is over: from_string returns the Obj.
FromStringOk ==
    /\ pc = "lines"
    /\ i = Len(lines)
    /\ result' = Some(Ok([positions |-> positions, faces |-> faces,
                          normals |-> normals, uvs |-> uvs]))
    /\ pc' = "loaded"
    /\ UNCHANGED <<load_vars, data, file_name, lines, i, positions, uvs, normals, faces,
                   stderr, mesh_vars, panic>>

-----------------------------------------------------------------------------
(* App::handle_obj_error (src/app.rs): what load_model prints for an error.  *)

operand_count_message(expected, got) ==
    LET lo == expected[1]
        hi == expected[2]
    IN IF lo # None /\ hi # None
       THEN IF lo[1] = hi[1]
            THEN "Invalid operand count. Expected " \o ToString(lo[1])
                 \o ", got " \o ToString(got)
            ELSE "Invalid operand count. Expected a value between "
                 \o ToString(lo[1]) \o " and " \o ToString(hi[1])
                 \o ", got " \o ToString(got)
       ELSE IF lo # None
       THEN "Invalid operand count. Expected at least " \o ToString(lo[1])
            \o ", got " \o ToString(got)
       ELSE IF hi # None
       THEN "Invalid operand count. Expected at most " \o ToString(hi[1])
            \o ", got " \o ToString(got)
       ELSE "unreachable"

detail_message(detail) ==
    CASE detail.kind = "UnknownCommand" -> "Unknown command: " \o detail.command
      [] detail.kind \in {"VertexParseFloatError", "UVParseFloatError",
                          "NormalParseFloatError"} -> "Malformed float"
      [] detail.kind = "FaceParseIntError" -> "Malformed unsigned int"
      [] detail.kind = "InvalidFaceOperand" ->
            "Invalid index: " \o ToString(detail.value)
      [] detail.kind = "InvalidOperandCount" ->
            operand_count_message(detail.expected, detail.got)

\* The three values eprintln! interpolates: "{file}:{line}\nerror: {detail}"
\* for a ParseError; any other error is printed with {:?}.
handle_obj_error(error) ==
    IF "detail" \in DOMAIN error
    THEN [file |-> IF error.file = None THEN "inline" ELSE error.file[1],
          line |-> error.line,
          detail |-> detail_message(error.detail)]
    ELSE [debug |-> error]

\* load_model's Err arm: print the error and return.
HandleObjError ==
    /\ pc = "error"
    /\ stderr' = Append(stderr, handle_obj_error(result[1].err))
    /\ pc' = "done"
    /\ UNCHANGED <<load_vars, data, file_name, parse_vars, mesh_vars, panic>>

-----------------------------------------------------------------------------
(* triangulate and impl From<wavefront::Obj> for MeshData                    *)
(* (src/renderer/mesh.rs).                                                   *)

\* The loop of triangulate, `for i in 1..(attributes.len() - 1)`: k is the
\* loop's i and ret is what was pushed so far.
RECURSIVE triangulate_loop(_, _, _)
triangulate_loop(attributes, k, ret) ==
    IF k >= Len(attributes) - 1 THEN ret
    ELSE triangulate_loop(attributes, k + 1,
             Append(ret, <<attributes[1], attributes[k + 1], attributes[k + 2]>>))

\* A strip instead of a fan: the windows of three consecutive attributes.
triangulate_windows(attributes) ==
    [k \in 1..(Len(attributes) - 2) |->
        <<attributes[k], attributes[k + 1], attributes[k + 2]>>]

triangulate(attributes) == triangulate_loop(attributes, 1, <<>>)

\* `index as usize - 1` on index 0 overflows: a debug build panics on the
\* subtraction, a release build wraps and panics on the indexing.
underflow_panics(len) ==
    {[what |-> "attempt to subtract with overflow", len |-> len, index |-> 0],
     [what |-> "index out of bounds", len |-> len, index |-> UsizeMax]}

\* The panics of array[index as usize - 1]: none when the index is in range.
index_panics(array, index) ==
    IF index = 0 THEN underflow_panics(Len(array))
    ELSE IF index > Len(array)
    THEN {[what |-> "index out of bounds", len |-> Len(array), index |-> index - 1]}
    ELSE {}

\* The panics of `attributes.len() - 1` and attributes[0] on an empty face.
triangulate_panics(attributes) ==
    IF Len(attributes) = 0 THEN underflow_panics(0) ELSE {}

\* f32 division, of numbers: x / 0.0 is NaN for x = 0.0 and an infinity
\* otherwise.
F32Div(x, y) ==
    IF y = 0
    THEN (IF x = 0 THEN F32NaN ELSE IF x > 0 THEN F32Inf ELSE 0 - F32Inf)
    ELSE (1000 * x) \div y

\* Vec3::length() is zero iff the sum of the squares is.
LengthIsZero(v) == v[1] * v[1] + v[2] * v[2] + v[3] * v[3] = 0

\* Vec3::normalize (src/renderer/math/vec.rs): the vector itself when its
\* length is not zero, else each component divided by the length, zero.
normalize(v) ==
    IF ~LengthIsZero(v) THEN v
    ELSE <<F32Div(v[1], 0), F32Div(v[2], 0), F32Div(v[3], 0)>>

\* The Obj from_string returned.
ParsedObj == result[1].val

\* The attribute the inner loops of MeshData::from stand at.
Attribute == triangles[t + 1][a + 1]

InTriangles == pc = "triangles" /\ t < Len(triangles)

\* The lookups of a new attribute, in the code's order: position, normal, uv.
lookup_panics(obj, attribute) ==
    LET p == index_panics(obj.positions, attribute.position_index)
        n == IF attribute.normal_index = None THEN {}
             ELSE index_panics(obj.normals, attribute.normal_index[1])
        uv == IF attribute.texture_coordinate_index = None THEN {}
              ELSE index_panics(obj.uvs, attribute.texture_coordinate_index[1])
    IN IF p # {} THEN p ELSE IF n # {} THEN n ELSE uv

\* The 1-based index used as it is: the position after the one named, or
\* the last one.
lookup_position_unshifted(obj, attribute) ==
    obj.positions[IF attribute.position_index < Len(obj.positions)
                  THEN attribute.position_index + 1
                  ELSE attribute.position_index]

lookup_position(obj, attribute) == obj.positions[attribute.position_index]

lookup_normal(obj, attribute) ==
    normalize(IF attribute.normal_index = None THEN <<0, 0, 0>>
              ELSE obj.normals[attribute.normal_index[1]])

lookup_uv(obj, attribute) ==
    IF attribute.texture_coordinate_index = None THEN <<0, 0, 0>>
    ELSE obj.uvs[attribute.texture_coordinate_index[1]]

\* A lookup that never finds the key: every attribute is taken as new.
map_get_never(map, key) == None

\* processed_attributes.get(&attribute)
map_get(map, key) == IF key \in DOMAIN map THEN Some(map[key]) ELSE None

\* An insert that records the vertex count after the push, one too many.
map_insert_after_push(map, key, value) ==
    [k \in DOMAIN map \cup {key} |-> IF k = key THEN value + 1 ELSE map[k]]

\* processed_attributes.insert(attribute, index)
map_insert(map, key, value) ==
    [k \in DOMAIN map \cup {key} |-> IF k = key THEN value ELSE map[k]]

\* The next attribute of the triangle, or the first of the next triangle.
Advance ==
    /\ a' = (a + 1) % 3
    /\ t' = IF a = 2 THEN t + 1 ELSE t

\* The map of processed attributes is not emptied: it is what the last
\* conversion left.
MeshFromKeepingMap ==
    /\ pc = "loaded"
    /\ m_positions' = <<>>
    /\ m_uvs' = <<>>
    /\ m_normals' = <<>>
    /\ indices' = <<>>
    /\ f' = 0
    /\ pc' = "faces"
    /\ UNCHANGED <<load_vars, data, file_name, parse_vars, stderr, triangles,
                   t, a, panic, processed_attributes>>

\* MeshData::from up to its loops: the empty output arrays and map.
MeshFrom ==
    /\ pc = "loaded"
    /\ m_positions' = <<>>
    /\ m_uvs' = <<>>
    /\ m_normals' = <<>>
    /\ indices' = <<>>
    /\ processed_attributes' = <<>>
    /\ f' = 0
    /\ pc' = "faces"
    /\ UNCHANGED <<load_vars, data, file_name, parse_vars, stderr, triangles, t, a, panic>>

\* `for face in obj.faces()`: the next face is triangulated.
Triangulate ==
    /\ pc = "faces"
    /\ f < Len(ParsedObj.faces)
    /\ LET attributes == ParsedObj.faces[f + 1].attributes IN
       IF triangulate_panics(attributes) = {}
       THEN /\ triangles' = triangulate(attributes)
            /\ t' = 0
            /\ a' = 0
            /\ pc' = "triangles"
            /\ UNCHANGED panic
       ELSE /\ \E p \in triangulate_panics(attributes) : panic' = Some(p)
            /\ pc' = "panic"
            /\ UNCHANGED <<triangles, t, a>>
    /\ UNCHANGED <<load_vars, data, file_name, parse_vars, stderr, f, processed_attributes,
                   m_positions, m_uvs, m_normals, indices>>

\* The values of an attribute that is in the map pushed once more.
AttributeReusePushing ==
    /\ InTriangles
    /\ map_get(processed_attributes, Attribute) # None
    /\ indices' = Append(indices, map_get(processed_attributes, Attribute)[1])
    /\ m_positions' = m_positions \o SubSeq(m_positions, 1, 3)
    /\ Advance
    /\ UNCHANGED <<load_vars, data, file_name, pc, parse_vars, stderr, f,
                   triangles, processed_attributes, m_uvs, m_normals, panic>>

\* The attribute is in the map: its index is pushed again.
AttributeReuse ==
    /\ InTriangles
    /\ map_get(processed_attributes, Attribute) # None
    /\ indices' = Append(indices, map_get(processed_attributes, Attribute)[1])
    /\ Advance
    /\ UNCHANGED <<load_vars, data, file_name, pc, parse_vars, stderr, f, triangles,
                   processed_attributes, m_positions, m_uvs, m_normals, panic>>

\* The index of a new attribute taken as its offset in positions, three
\* times the number of vertices.
AttributeInsertByOffset ==
    /\ InTriangles
    /\ map_get(processed_attributes, Attribute) = None
    /\ lookup_panics(ParsedObj, Attribute) = {}
    /\ LET position == lookup_position(ParsedObj, Attribute)
           normal == lookup_normal(ParsedObj, Attribute)
           uv == lookup_uv(ParsedObj, Attribute)
           index == Len(m_positions)
       IN /\ m_positions' = m_positions \o <<position[1], position[2], position[3]>>
          /\ m_normals' = m_normals \o <<normal[1], normal[2], normal[3]>>
          /\ m_uvs' = m_uvs \o <<uv[1], uv[2]>>
          /\ processed_attributes' = map_insert(processed_attributes, Attribute, index)
          /\ indices' = Append(indices, index)
    /\ Advance
    /\ UNCHANGED <<load_vars, data, file_name, pc, parse_vars, stderr, f,
                   triangles, panic>>

\* The attribute is new: its values are pushed and it gets the next index.
AttributeInsert ==
    /\ InTriangles
    /\ map_get(processed_attributes, Attribute) = None
    /\ lookup_panics(ParsedObj, Attribute) = {}
    /\ LET position == lookup_position(ParsedObj, Attribute)
           normal == lookup_normal(ParsedObj, Attribute)
           uv == lookup_uv(ParsedObj, Attribute)
           index == Cardinality(DOMAIN processed_attributes)
       IN /\ m_positions' = m_positions \o <<position[1], position[2], position[3]>>
          /\ m_normals' = m_normals \o <<normal[1], normal[2], normal[3]>>
          /\ m_uvs' = m_uvs \o <<uv[1], uv[2]>>
          /\ processed_attributes' = map_insert(processed_attributes, Attribute, index)
          /\ indices' = Append(indices, index)
    /\ Advance
    /\ UNCHANGED <<load_vars, data, file_name, pc, parse_vars, stderr, f, triangles, panic>>

\* The attribute is new and one of its indices is not in its array.
AttributePanic ==
    /\ InTriangles
    /\ map_get(processed_attributes, Attribute) = None
    /\ \E p \in lookup_panics(ParsedObj, Attribute) : panic' = Some(p)
    /\ pc' = "panic"
    /\ UNCHANGED <<load_vars, data, file_name, parse_vars, stderr, mesh_vars>>

\* The triangles of the face are done: on to the next face.
FaceDone ==
    /\ pc = "triangles"
    /\ t = Len(triangles)
    /\ f' = f + 1
    /\ pc' = "faces"
    /\ UNCHANGED <<load_vars, data, file_name, parse_vars, stderr, triangles, t, a,
                   processed_attributes, m_positions, m_uvs, m_normals, indices,
                   panic>>

\* The faces are done: MeshData::from returns the mesh.
MeshReturn ==
    /\ pc = "faces"
    /\ f = Len(ParsedObj.faces)
    /\ pc' = "mesh_done"
    /\ UNCHANGED <<load_vars, data, file_name, parse_vars, stderr, mesh_vars, panic>>

\* The MeshData returned.
MeshData == [positions |-> m_positions, indices |-> indices, colors |-> <<>>,
             normals |-> m_normals, uvs |-> m_uvs]

\* f32::min and f32::max: when one argument is NaN, the other one.
F32Min(x, y) ==
    IF x = F32NaN THEN y ELSE IF y = F32NaN THEN x
    ELSE IF x <= y THEN x ELSE y

F32Max(x, y) ==
    IF x = F32NaN THEN y ELSE IF y = F32NaN THEN x
    ELSE IF x >= y THEN x ELSE y

\* The first vertex kept as the lowest: no minimum is taken.
get_lowest_first(vertex, lowest) ==
    IF lowest = None THEN vertex ELSE lowest[1]

get_lowest(vertex, lowest) ==
    IF lowest = None THEN vertex
    ELSE <<F32Min(lowest[1][1], vertex[1]),
           F32Min(lowest[1][2], vertex[2]),
           F32Min(lowest[1][3], vertex[3])>>

get_highest(vertex, highest) ==
    IF highest = None THEN vertex
    ELSE <<F32Max(highest[1][1], vertex[1]),
           F32Max(highest[1][2], vertex[2]),
           F32Max(highest[1][3], vertex[3])>>

\* The loop of bounding_box over positions.chunks(3): k is the 0-based
\* number of the chunk. The positions MeshData::from fills come in threes.
RECURSIVE bounding_box_loop(_, _, _, _)
bounding_box_loop(ps, k, lowest, highest) ==
    IF 3 * k >= Len(ps) THEN <<lowest, highest>>
    ELSE LET vertex == <<ps[3 * k + 1], ps[3 * k + 2], ps[3 * k + 3]>> IN
         bounding_box_loop(ps, k + 1, Some(get_lowest(vertex, lowest)),
                           Some(get_highest(vertex, highest)))

\* MeshData::bounding_box: `lowest?` returns None when there was no chunk.
bounding_box(mesh) ==
    LET r == bounding_box_loop(mesh.positions, 0, None, None) IN
    IF r[1] = None \/ r[2] = None THEN None
    ELSE Some([min_point |-> r[1][1], max_point |-> r[2][1]])

\* f32 addition, halving and negation; a NaN operand gives NaN.
F32Add(x, y) == IF x = F32NaN \/ y = F32NaN THEN F32NaN ELSE x + y

F32Half(x) == IF x = F32NaN THEN F32NaN ELSE x \div 2

F32Neg(x) == IF x = F32NaN THEN F32NaN ELSE 0 - x

\* BoundingBox::get_vertices: the eight corners.
get_vertices(box) ==
    LET lo == box.min_point
        hi == box.max_point
    IN <<<<lo[1], lo[2], lo[3]>>, <<hi[1], lo[2], lo[3]>>,
         <<lo[1], hi[2], lo[3]>>, <<hi[1], hi[2], lo[3]>>,
         <<lo[1], lo[2], hi[3]>>, <<hi[1], lo[2], hi[3]>>,
         <<lo[1], hi[2], hi[3]>>, <<hi[1], hi[2], hi[3]>>>>

\* BoundingBox::center: (min + max) * 0.5 on each axis.
center(box) ==
    [k \in 1..3 |-> F32Half(F32Add(box.min_point[k], box.max_point[k]))]

\* Transform::default() but for its origin; only the origin is kept.
Transform(origin) == [origin |-> origin]

\* create_bounding_box_mesh: no mesh without a box, else the corners, the
\* 24 indices of the 12 edges and red for colors.
create_bounding_box_mesh(box) ==
    IF box = None THEN None
    ELSE LET vertices == get_vertices(box[1]) IN
         Some([positions |-> [k \in 1..24 |->
                                 vertices[(k - 1) \div 3 + 1][((k - 1) % 3) + 1]],
               indices |-> <<0, 1, 1, 3, 3, 2, 2, 0,
                             4, 5, 5, 7, 7, 6, 6, 4,
                             0, 4, 1, 5, 2, 6, 3, 7>>,
               colors |-> [k \in 1..72 |-> IF k % 3 = 1 THEN 1000 ELSE 0]])

\* The target object of a mesh: its origin is minus the center of the box.
target_object(mesh, box) ==
    [mesh |-> mesh,
     transform |-> Transform(IF box = None THEN <<0, 0, 0>>
                             ELSE [k \in 1..3 |-> F32Neg(center(box[1])[k])])]

\* The box kept in the state is that of all the positions of the document,
\* referenced by a face or not.
BoundingBoxOfObj ==
    /\ pc = "mesh_done"
    /\ LET all == [positions |->
                     [k \in 1..(3 * Len(ParsedObj.positions)) |->
                         ParsedObj.positions[(k - 1) \div 3 + 1][((k - 1) % 3) + 1]]]
           box == bounding_box(all)
           box_mesh == create_bounding_box_mesh(box)
       IN /\ state_bounding_box' = box
          /\ state_meshes' = [target |-> Some(MeshData), bounding_box |-> box_mesh]
          /\ state_objects' =
                [target |-> Some(target_object(MeshData, box)),
                 bounding_box |->
                    IF box_mesh = None THEN None
                    ELSE Some([mesh |-> box_mesh[1],
                               transform |-> Transform(<<0, 0, 0>>)])]
    /\ pc' = "model_loaded"
    /\ UNCHANGED <<path, previous, targa, data, file_name, parse_vars, stderr,
                   mesh_vars, panic>>

\* load_model after MeshData::from: the bounding box, the target mesh and
\* its object, the mesh of the box and its object are put in the state.
BoundingBox ==
    /\ pc = "mesh_done"
    /\ LET box == bounding_box(MeshData)
           box_mesh == create_bounding_box_mesh(box)
       IN /\ state_bounding_box' = box
          /\ state_meshes' = [target |-> Some(MeshData), bounding_box |-> box_mesh]
          /\ state_objects' =
                [target |-> Some(target_object(MeshData, box)),
                 bounding_box |->
                    IF box_mesh = None THEN None
                    ELSE Some([mesh |-> box_mesh[1],
                               transform |-> Transform(<<0, 0, 0>>)])]
    /\ pc' = "model_loaded"
    /\ UNCHANGED <<path, previous, targa, data, file_name, parse_vars, stderr,
                   mesh_vars, panic>>

\* The part of load_model's state that load_model writes.
State == [bounding_box |-> state_bounding_box,
          meshes |-> state_meshes,
          objects |-> state_objects]

\* What a call of load_model gave: the Result of from_string, the mesh and
\* the bounding box when there is one, the message when there is none, and
\* the state it left.
Outcome ==
    [result |-> result,
     mesh |-> IF pc = "model_loaded" THEN Some(MeshData) ELSE None,
     bounding_box |-> IF pc = "model_loaded" THEN state_bounding_box ELSE None,
     message |-> IF pc = "done" THEN Some(stderr[Len(stderr)]) ELSE None,
     state |-> State]

\* handle_keydown, "M": load_model is called again, here with the path of
\* the load before. The call has its own locals, which from_string and
\* MeshData::from set up when they are reached; what the last call printed
\* and the bounding box it left in the state stay.
LoadAgain ==
    /\ pc \in {"done", "model_loaded"}
    /\ previous = None
    /\ previous' = Some(Outcome)
    /\ result' = None
    /\ pc' = "from_string"
    /\ UNCHANGED <<path, state_bounding_box, state_meshes, state_objects, targa,
                   data, file_name, lines, i, positions, uvs, normals, faces,
                   stderr, mesh_vars, panic>>

-----------------------------------------------------------------------------
(* Targa::from_file and TargaHeader::from_bytes (src/truevision.rs).         *)

\* u16::from_le_bytes
U16FromLeBytes(lo, hi) == lo + 256 * hi

\* The match of from_bytes on bytes[2]: None for the `_` arm.
image_type_of(byte) ==
    CASE byte = 0 -> Some("NoImage")
      [] byte = 1 -> Some("UncompressedColorMapped")
      [] byte = 2 -> Some("UncompressedTrueColor")
      [] byte = 3 -> Some("UncompressedGrayscale")
      [] byte = 9 -> Some("CompressedColorMapped")
      [] byte = 10 -> Some("CompressedTrueColor")
      [] byte = 11 -> Some("CompressedGrayscale")
      [] OTHER -> None

\* TargaHeader::from_bytes; bytes[k] of the code is bytes[k + 1] here.
from_bytes(bytes) ==
    IF Len(bytes) # 18 THEN Err([kind |-> "InvalidHeader"])
    ELSE IF image_type_of(bytes[3]) = None THEN Err([kind |-> "InvalidHeader"])
    ELSE Ok([id_length |-> bytes[1],
             color_map_included |-> bytes[2] # 0,
             image_type |-> image_type_of(bytes[3])[1],
             color_map_specification |->
                [first_entry_index |-> U16FromLeBytes(bytes[4], bytes[5]),
                 color_map_length |-> U16FromLeBytes(bytes[6], bytes[7]),
                 color_map_entry_size |-> bytes[8]],
             image_specification |->
                [x_origin |-> U16FromLeBytes(bytes[9], bytes[10]),
                 y_origin |-> U16FromLeBytes(bytes[11], bytes[12]),
                 width |-> U16FromLeBytes(bytes[13], bytes[14]),
                 height |-> U16FromLeBytes(bytes[15], bytes[16]),
                 bits_per_pixel |-> bytes[17],
                 alpha_depth |-> bytes[18] % 16,
                 horizontal_ordering |->
                    IF (bytes[18] \div 16) % 2 = 1 THEN "RightToLeft"
                    ELSE "LeftToRight",
                 vertical_ordering |->
                    IF (bytes[18] \div 32) % 2 = 1 THEN "TopToBottom"
                    ELSE "BottomToTop"]])

\* The panic of a slice data[..end] or data[start..end] whose end is past
\* the data.
SlicePanic(end, len) ==
    [what |-> "range end index out of range for slice", index |-> end,
     len |-> len]

\* File::open(path)? or read_to_end(&mut data)? fails: IoError.
TargaIoError ==
    /\ pc = "targa_from_file"
    /\ targa' = [targa EXCEPT !.result = Some(Err([kind |-> "IoError"]))]
    /\ pc' = "targa_done"
    /\ UNCHANGED <<path, state_bounding_box, state_meshes, state_objects,
                   previous, data, file_name, parse_vars, stderr, mesh_vars,
                   panic>>

\* &data[..18] on a file of fewer than 18 bytes: the slice panics.
TargaHeaderPanic ==
    /\ pc = "targa_from_file"
    /\ Len(targa.data) < 18
    /\ panic' = Some(SlicePanic(18, Len(targa.data)))
    /\ pc' = "panic"
    /\ UNCHANGED <<load_vars, data, file_name, parse_vars, stderr, mesh_vars>>

\* TargaHeader::from_bytes(&data[..18])? on a file of 18 bytes or more.
TargaFromBytes ==
    /\ pc = "targa_from_file"
    /\ Len(targa.data) >= 18
    /\ LET header == from_bytes(SubSeq(targa.data, 1, 18)) IN
       IF header.ok
       THEN /\ targa' = [targa EXCEPT !.header = Some(header.val)]
            /\ pc' = "targa_header"
       ELSE /\ targa' = [targa EXCEPT !.result = Some(Err(header.err))]
            /\ pc' = "targa_done"
    /\ UNCHANGED <<path, state_bounding_box, state_meshes, state_objects,
                   previous, data, file_name, parse_vars, stderr, mesh_vars,
                   panic>>

\* width as usize * height as usize
number_of_pixels(header) ==
    header.image_specification.width * header.image_specification.height

\* The match on bits_per_pixel, for 24 and 32.
number_of_bytes(header) ==
    IF header.image_specification.bits_per_pixel = 24
    THEN 3 * number_of_pixels(header)
    ELSE 4 * number_of_pixels(header)

\* From the match on the image type to the check of the ordering: the
\* errors are returned in the code's order, and &data[18..(n + 18)] panics
\* when the file is shorter than n + 18 bytes.
TargaPixelData ==
    /\ pc = "targa_header"
    /\ LET header == targa.header[1]
           image == header.image_specification
           n == number_of_bytes(header)
           Fail(error) ==
               /\ targa' = [targa EXCEPT !.result = Some(Err(error))]
               /\ pc' = "targa_done"
               /\ UNCHANGED panic
       IN IF header.image_type # "UncompressedTrueColor"
          THEN Fail([kind |-> "UnsupportedImageType",
                       type |-> header.image_type])
          ELSE IF image.bits_per_pixel \notin {24, 32}
          THEN Fail([kind |-> "UnsupportedBitDepth",
                       depth |-> image.bits_per_pixel])
          ELSE IF n > Len(targa.data) + 18
          THEN Fail([kind |-> "InvalidHeader"])
          ELSE IF n + 18 > Len(targa.data)
          THEN /\ panic' = Some(SlicePanic(n + 18, Len(targa.data)))
               /\ pc' = "panic"
               /\ UNCHANGED targa
          ELSE IF \/ image.horizontal_ordering # "LeftToRight"
                  \/ image.vertical_ordering # "TopToBottom"
          THEN Fail([kind |-> "UnsupportedOrdering",
                       horizontal |-> image.horizontal_ordering,
                       vertical |-> image.vertical_ordering])
          ELSE /\ targa' = [targa EXCEPT
                              !.pixel_data = SubSeq(targa.data, 19, n + 18)]
               /\ pc' = "targa_pixels"
               /\ UNCHANGED panic
    /\ UNCHANGED <<path, state_bounding_box, state_meshes, state_objects,
                   previous, data, file_name, parse_vars, stderr, mesh_vars>>

\* bits_per_pixel / 8
window_size(header) == header.image_specification.bits_per_pixel \div 8

\* One turn of `for pixel in pixel_data.chunks(window_size)`: the first
\* three bytes of the chunk are pushed. pixel_data is what is left of it.
TargaPixel ==
    /\ pc = "targa_pixels"
    /\ targa.pixel_data # <<>>
    /\ LET size == window_size(targa.header[1])
           pixel == SubSeq(targa.pixel_data, 1,
                           IF size < Len(targa.pixel_data) THEN size
                           ELSE Len(targa.pixel_data))
       IN IF Len(pixel) < 3
          THEN /\ panic' = Some([what |-> "index out of bounds",
                                 len |-> Len(pixel), index |-> Len(pixel)])
               /\ pc' = "panic"
               /\ UNCHANGED targa
          ELSE /\ targa' = [targa EXCEPT
                              !.bytes = targa.bytes \o SubSeq(pixel, 1, 3),
                              !.pixel_data = Drop(targa.pixel_data, Len(pixel))]
               /\ UNCHANGED <<pc, panic>>
    /\ UNCHANGED <<path, state_bounding_box, state_meshes, state_objects,
                   previous, data, file_name, parse_vars, stderr, mesh_vars>>

\* The chunks are done: Ok(Targa { bytes, width, height }).
TargaOk ==
    /\ pc = "targa_pixels"
    /\ targa.pixel_data = <<>>
    /\ targa' = [targa EXCEPT !.result =
                    Some(Ok([bytes |-> targa.bytes,
                             width |-> targa.header[1].image_specification.width,
                             height |-> targa.header[1].image_specification.height]))]
    /\ pc' = "targa_done"
    /\ UNCHANGED <<path, state_bounding_box, state_meshes, state_objects,
                   previous, data, file_name, parse_vars, stderr, mesh_vars,
                   panic>>

-----------------------------------------------------------------------------
(* The texts.                                                                *)

\* The longest text of Spec, in lines.
MaxLines == 2

\* The most face lines of a text of SpecMesh.
MaxFaces == 2

RECURSIVE Concat(_)
Concat(ls) == IF Len(ls) = 0 THEN "" ELSE Head(ls) \o "\n" \o Concat(Tail(ls))

\* The texts of at most n lines of the library, each line ended by "\n".
Texts(library, n) ==
    UNION {{Concat(ls) : ls \in [1..k -> library]} : k \in 0..n}

\* Lines of every directive, with every operand count around the accepted
\* ones, and invalid in each way the parser tells apart.
ParseLibrary ==
    {"", "  # zz 1 2", "usemtl m\r", "zz 1 2 3", "zz",
     "v", "v 1.0 2.0", "v 0 0 0", "v 1 2 3 4", " v  1 2 3 4 5", "v 1 x 0",
     "vt", "vt 0.5", "vt 0 1", "vt 1 2 3", "vt 1 2 3 4",
     "vn 0 1", "vn 0 0 1", "vn 0 0 1 0",
     "f", "f 1 2", "f 1 1 1", "f 1 2 3 4", "f 1 2 0", "f 1 x 0"}

\* The v, vt and vn lines of the texts of SpecMesh: from no position to
\* three, without and with a uv and a normal, positions whose least and
\* greatest components lie in different vertices, and a position that is
\* not a number.
Declarations ==
    {"",
     "v 0 0 0\n",
     "v 0 0 0\nv 1 0 0\n",
     "v 0 0 0\nv 1 0 0\nv 0 1 0\n",
     "v 0 0 0\nvt 0 0\nvn 0 0 1\n",
     "v 0 0 0\nv 1 0 0\nv 0 1 0\nvt 0 0\nvn 0 0 1\n",
     "v 0.5 -2 3\nv -1 2 0\nv 4 0 -0.25\nvt 0.5 1\nvn 0 3 4\n",
     "v NaN 0 0\nv 1 0 0\nv 0 1 0\n"}

\* The f lines of the texts of SpecMesh: faces of three, four and five
\* attributes, attributes that repeat within a face and across faces, and
\* attributes that differ only in an absent index.
FaceLibrary ==
    {"f 1 2 3", "f 1 1/1 1", "f 1 1/1 1//1 1/1/1", "f 3 2 1 2 3",
     "f 1/1/1 2/1/1 3/1/1"}

\* Small meshes: declarations and at most MaxFaces faces, the faces after
\* the declarations or before them. Every line is a valid line, and the
\* indices of the faces are in range in some texts and out of range in
\* others.
MeshTexts ==
    UNION {{d \o fs, fs \o d} :
           <<d, fs>> \in Declarations \X Texts(FaceLibrary, MaxFaces)}

\* Lines that from_string passes over or discards, with operands of every
\* kind after them, face lines whose operands have empty, zero and malformed
\* sub-fields, and a valid line of each directive.
LineLibrary ==
    {"", "   ", "\t\r", "#", "# v 1 x", "  #f 0 0 0",
     "mtllib", "usemtl m\r", " s off", "g a b  c", "o v 1 2 3 4 5",
     "f 1/ 1// 1/1/1", "f 1/0/1 1 1", "f 1 1//0 1", "f 1/x 1 1", "f 1 1 1",
     "v 0 0 0", "vt 0 0", "vn 0 0 1", "zz"}

\* Lines with operands that are too few or too many, malformed, or both,
\* face operands with one to four sub-fields, empty ones among them, and a
\* line of every other kind.
OperandLibrary ==
    {"v x", "v 1 x 0", "v 0 0 0 0 x", "v 0 0 0",
     "vt x 0 0 0", "vt 0 x", "vt 0 0",
     "vn 0 x", "vn x 0 1", "vn 0 0 1",
     "f x 0", "f 0 x 1", "f 1 /1 x", "f 1 x /1", "f 1 1 0", "f 1 1 1",
     "f 1/1/1/x 1/1/1 1", "f 1 1/ 1//", "f /2/3 1 1", "f 1//1/ 1//1 1",
     "# v", "o", "zz"}

FileNames == {None, Some("model.obj")}

Start ==
    /\ pc = "from_string"
    /\ lines = <<>>
    /\ i = 0
    /\ positions = <<>>
    /\ uvs = <<>>
    /\ normals = <<>>
    /\ faces = <<>>
    /\ result = None
    /\ stderr = <<>>
    /\ f = 0
    /\ triangles = <<>>
    /\ t = 0
    /\ a = 0
    /\ processed_attributes = <<>>
    /\ m_positions = <<>>
    /\ m_uvs = <<>>
    /\ m_normals = <<>>
    /\ indices = <<>>
    /\ panic = None
    /\ path = None
    /\ state_bounding_box = None
    /\ state_meshes = [target |-> None, bounding_box |-> None]
    /\ state_objects = [target |-> None, bounding_box |-> None]
    /\ previous = None
    /\ targa = None

Init ==
    /\ data \in Texts(ParseLibrary, MaxLines)
    /\ file_name \in FileNames
    /\ Start

InitMesh ==
    /\ data \in MeshTexts
    /\ file_name = Some("model.obj")
    /\ Start

InitLines ==
    /\ data \in Texts(LineLibrary, MaxLines)
    /\ file_name = None
    /\ Start

InitAgain ==
    /\ data \in MeshTexts \cup Texts(LineLibrary, MaxLines)
    /\ file_name = Some("model.obj")
    /\ Start

\* The v lines LoadAppended adds: a position outside the box of every text
\* and one with a w.
AppendedLines == {"v 9 9 9", "v -7 0 0 2"}

\* The files of LoadModel: two models, an empty file, two that do not parse
\* and one whose face names a position that is not there.
ReloadTexts ==
    {"# m\no m\nv 0.5 -2 3\nv -1 2 0\nv 4 0 -0.25\nvt 0.5 1\nvn 0 3 4\nf 1/1/1 2/1/1 3/1/1\n",
     "v 0 0 0\nf 1 1 1\n",
     "",
     "v x\n",
     "zz\n",
     "v 0 0 0\nf 1 1 2\n"}

\* A path that is valid Unicode and one that is not.
Paths == {[os |-> "model.obj", unicode |-> TRUE],
          [os |-> "model<FF>.obj", unicode |-> FALSE]}

\* load_model calls from_file: data is the text of the file, if there is a
\* file that can be read.
InitFile ==
    /\ data \in MeshTexts \cup Texts(LineLibrary, MaxLines)
    /\ file_name = None
    /\ pc = "from_file"
    /\ lines = <<>>
    /\ i = 0
    /\ positions = <<>>
    /\ uvs = <<>>
    /\ normals = <<>>
    /\ faces = <<>>
    /\ result = None
    /\ stderr = <<>>
    /\ f = 0
    /\ triangles = <<>>
    /\ t = 0
    /\ a = 0
    /\ processed_attributes = <<>>
    /\ m_positions = <<>>
    /\ m_uvs = <<>>
    /\ m_normals = <<>>
    /\ indices = <<>>
    /\ panic = None
    /\ \E p \in Paths : path = Some(p)
    /\ state_bounding_box = None
    /\ state_meshes = [target |-> None, bounding_box |-> None]
    /\ state_objects = [target |-> None, bounding_box |-> None]
    /\ previous = None
    /\ targa = None

InitOperands ==
    /\ data \in Texts(OperandLibrary, MaxLines)
    /\ file_name = None
    /\ Start

Next ==
    \/ FromString
    \/ SkipLine
    \/ PositionsLine
    \/ FaceLine
    \/ UvLine
    \/ NormalLine
    \/ IgnoredLine
    \/ UnknownLine
    \/ FromStringOk
    \/ HandleObjError
    \/ MeshFrom
    \/ Triangulate
    \/ AttributeReuse
    \/ AttributeInsert
    \/ AttributePanic
    \/ FaceDone
    \/ MeshReturn
    \/ BoundingBox

\* Every line of a text of SpecMesh is a valid v, vt, vn or f line, so the
\* loop of from_string takes no other arm and returns no error.
NextMesh ==
    \/ FromString
    \/ PositionsLine
    \/ FaceLine
    \/ UvLine
    \/ NormalLine
    \/ FromStringOk
    \/ MeshFrom
    \/ Triangulate
    \/ AttributeReuse
    \/ AttributeInsert
    \/ AttributePanic
    \/ FaceDone
    \/ MeshReturn
    \/ BoundingBox

\* The texts that exercise the parser.
Spec == Init /\ [][Next]_vars

\* The pipeline with a second load of the same text.
NextAgain ==
    \/ Next
    \/ LoadAgain

SpecAgain == InitAgain /\ [][NextAgain]_vars

\* The pipeline from from_file on.
NextFile ==
    \/ FromFilePathError
    \/ FromFileOpenError
    \/ FromFileReadPanic
    \/ FromFile
    \/ Next

SpecFile == InitFile /\ [][NextFile]_vars

\* handle_keydown, "M", after a load that gave a model: load_model is called
\* again and the file has one more v line at its end.
LoadAppended ==
    /\ pc = "model_loaded"
    /\ previous = None
    /\ \E line \in AppendedLines : data' = data \o line \o "\n"
    /\ previous' = Some(Outcome)
    /\ result' = None
    /\ pc' = "from_string"
    /\ UNCHANGED <<path, state_bounding_box, state_meshes, state_objects, targa,
                   file_name, lines, i, positions, uvs, normals, faces,
                   stderr, mesh_vars, panic>>

\* handle_keydown, "M", with another path: load_model is called with the
\* path read from stdin, and from_file reads another file.
LoadModel ==
    /\ pc \in {"done", "model_loaded"}
    /\ previous = None
    /\ \E p \in Paths : path' = Some(p)
    /\ data' \in ReloadTexts
    /\ previous' = Some(Outcome)
    /\ result' = None
    /\ file_name' = None
    /\ pc' = "from_file"
    /\ UNCHANGED <<state_bounding_box, state_meshes, state_objects, targa, lines, i,
                   positions, uvs, normals, faces, stderr, mesh_vars, panic>>

\* The 18 bytes of a header with the given image type, width, height, bits
\* per pixel and image descriptor, the other fields 0.
TargaHeaderBytes(type, width, height, bits, descriptor) ==
    <<0, 0, type, 0, 0, 0, 0, 0, 0, 0, 0, 0,
      width % 256, width \div 256, height % 256, height \div 256,
      bits, descriptor>>

\* n bytes of pixel data, each with a value of its own.
TargaPayload(n) == [k \in 1..n |-> k]

\* The files of Targa::from_file: every prefix of a header, and headers of
\* each image type, size, depth and ordering followed by as many bytes as
\* they declare, fewer, or more.
TargaFiles ==
    {SubSeq(TargaHeaderBytes(2, 1, 1, 24, 32), 1, k) : k \in 0..17}
    \cup
    {TargaHeaderBytes(type, width, height, bits, descriptor) \o TargaPayload(n) :
        type \in {2, 3, 12}, width \in {0, 1, 2, 4}, height \in {1, 2, 4},
        bits \in {24, 32, 16}, descriptor \in {32, 0, 48},
        n \in {0, 3, 12, 16, 48}}

InitTarga ==
    /\ data = ""
    /\ file_name = None
    /\ pc = "targa_from_file"
    /\ lines = <<>>
    /\ i = 0
    /\ positions = <<>>
    /\ uvs = <<>>
    /\ normals = <<>>
    /\ faces = <<>>
    /\ result = None
    /\ stderr = <<>>
    /\ f = 0
    /\ triangles = <<>>
    /\ t = 0
    /\ a = 0
    /\ processed_attributes = <<>>
    /\ m_positions = <<>>
    /\ m_uvs = <<>>
    /\ m_normals = <<>>
    /\ indices = <<>>
    /\ panic = None
    /\ path = None
    /\ state_bounding_box = None
    /\ state_meshes = [target |-> None, bounding_box |-> None]
    /\ state_objects = [target |-> None, bounding_box |-> None]
    /\ previous = None
    /\ \E file \in TargaFiles :
          targa = [data |-> file, header |-> None, pixel_data |-> <<>>,
                   bytes |-> <<>>, result |-> None]

\* Targa::from_file, which App::run calls before the event loop.
NextTarga ==
    \/ TargaIoError
    \/ TargaHeaderPanic
    \/ TargaFromBytes
    \/ TargaPixelData
    \/ TargaPixel
    \/ TargaOk

SpecTarga == InitTarga /\ [][NextTarga]_vars

\* A conversion, then the file with one more v line converted.
NextAppended ==
    \/ NextMesh
    \/ LoadAppended

SpecAppended == InitMesh /\ [][NextAppended]_vars

\* A call of load_model, then one with another path and file.
InitReload ==
    /\ data \in ReloadTexts
    /\ file_name = None
    /\ pc = "from_file"
    /\ lines = <<>>
    /\ i = 0
    /\ positions = <<>>
    /\ uvs = <<>>
    /\ normals = <<>>
    /\ faces = <<>>
    /\ result = None
    /\ stderr = <<>>
    /\ f = 0
    /\ triangles = <<>>
    /\ t = 0
    /\ a = 0
    /\ processed_attributes = <<>>
    /\ m_positions = <<>>
    /\ m_uvs = <<>>
    /\ m_normals = <<>>
    /\ indices = <<>>
    /\ panic = None
    /\ \E p \in Paths : path = Some(p)
    /\ state_bounding_box = None
    /\ state_meshes = [target |-> None, bounding_box |-> None]
    /\ state_objects = [target |-> None, bounding_box |-> None]
    /\ previous = None
    /\ targa = None

NextReload ==
    \/ NextFile
    \/ LoadModel

SpecReload == InitReload /\ [][NextReload]_vars

\* The texts that exercise the operands of a line.
SpecOperands == InitOperands /\ [][Next]_vars

\* The texts that exercise the conversion.
SpecMesh == InitMesh /\ [][NextMesh]_vars

\* The texts that exercise the lines from_string skips and discards, and
\* the sub-fields of face operands.
SpecLines == InitLines /\ [][Next]_vars

-----------------------------------------------------------------------------
(* The claims about the conversion, checked under SpecMesh.                  *)

\* The attributes of every face of the document.
FaceTriples(obj) ==
    UNION {{obj.faces[k].attributes[j] : j \in 1..Len(obj.faces[k].attributes)} :
           k \in 1..Len(obj.faces)}

\* The fan of a face, flattened: attribute 0, k, k + 1 for k = 1..n - 2.
Fan(attributes) ==
    [x \in 1..(3 * (Len(attributes) - 2)) |->
        LET k == (x - 1) \div 3 + 1
            c == (x - 1) % 3
        IN IF c = 0 THEN attributes[1] ELSE attributes[k + c]]

\* The attributes of the document in the order the conversion meets them:
\* face order, then fan order.
RECURSIVE StreamFrom(_, _)
StreamFrom(obj, k) ==
    IF k > Len(obj.faces) THEN <<>>
    ELSE Fan(obj.faces[k].attributes) \o StreamFrom(obj, k + 1)

Stream(obj) == StreamFrom(obj, 1)

Converting == pc \in {"faces", "triangles", "mesh_done", "panic"}

\* C1: when MeshData::from has returned, the number of output vertices,
\* positions.len() / 3, is the number of distinct (position, uv, normal)
\* index triples of the document's faces.
C1_VertexCountIsDistinctTriples ==
    pc = "mesh_done" =>
        /\ Len(m_positions) % 3 = 0
        /\ Len(m_positions) \div 3 = Cardinality(FaceTriples(ParsedObj))

\* Two attributes of one position, one without a uv index and one with a uv
\* index whose uv is the fallback (0, 0): equal values, distinct vertices.
C1_Witness ==
    /\ pc = "mesh_done"
    /\ \E x, y \in FaceTriples(ParsedObj) :
          /\ x.position_index = y.position_index
          /\ x.normal_index = y.normal_index
          /\ x.texture_coordinate_index = None
          /\ y.texture_coordinate_index # None
          /\ lookup_uv(ParsedObj, y) = lookup_uv(ParsedObj, x)
    /\ Len(indices) > Cardinality(FaceTriples(ParsedObj))
    /\ Len(m_positions) = 3 * Cardinality(FaceTriples(ParsedObj))

\* The attributes met so far: one per entry of the index list.
Met == SubSeq(Stream(ParsedObj), 1, Len(indices))

\* C2: all occurrences of an index triple, in any face and triangle, are
\* recorded in the index list with one output index, and the output arrays
\* hold one vertex per distinct triple met: a later occurrence grows nothing.
C2_OccurrencesShareIndex ==
    Converting =>
        LET met == Met
            distinct == Cardinality({met[k] : k \in 1..Len(indices)})
        IN /\ \A j, k \in 1..Len(indices) :
                 met[j] = met[k] => indices[j] = indices[k]
           /\ Len(m_positions) = 3 * distinct
           /\ Len(m_normals) = 3 * distinct
           /\ Len(m_uvs) = 2 * distinct

\* A triple of the first face occurs again in the second face.
C2_Witness ==
    /\ pc = "mesh_done"
    /\ Len(ParsedObj.faces) = 2
    /\ LET met == Met IN
       \E j, k \in 1..Len(indices) :
          /\ j <= 3 * (Len(ParsedObj.faces[1].attributes) - 2)
          /\ k > 3 * (Len(ParsedObj.faces[1].attributes) - 2)
          /\ met[j] = met[k]
          /\ indices[j] = indices[k]
    /\ Len(m_positions) < 3 * Len(indices)

\* The attributes of the document with an index outside its array.
OutOfRange(obj) ==
    {x \in FaceTriples(obj) :
        \/ x.position_index > Len(obj.positions)
        \/ /\ x.texture_coordinate_index # None
           /\ x.texture_coordinate_index[1] > Len(obj.uvs)
        \/ /\ x.normal_index # None
           /\ x.normal_index[1] > Len(obj.normals)}

\* C3: the conversion never panics: a document with an index greater than the
\* length of its array ends in an error value (IndexOutOfRange), and a mesh
\* is returned only when every index is in range.
C3_OutOfRangeIsAnError ==
    /\ pc # "panic"
    /\ panic = None
    /\ pc = "mesh_done" => OutOfRange(ParsedObj) = {}

\* C4: a face of n >= 3 attributes gives n - 2 triangles, the k-th being
\* (attributes[0], attributes[k], attributes[k + 1]) in that order.
C4_FanTriangulation ==
    pc = "triangles" =>
        LET attributes == ParsedObj.faces[f + 1].attributes
            n == Len(attributes)
        IN n >= 3 =>
              /\ Len(triangles) = n - 2
              /\ \A k \in 1..(n - 2) :
                    triangles[k] =
                        <<attributes[1], attributes[k + 1], attributes[k + 2]>>

\* [A, B, C, D], four distinct attributes, gives (A, B, C), (A, C, D).
C4_Witness ==
    /\ pc = "triangles"
    /\ LET attributes == ParsedObj.faces[f + 1].attributes IN
          /\ Len(attributes) = 4
          /\ Cardinality({attributes[k] : k \in 1..4}) = 4
          /\ triangles = <<<<attributes[1], attributes[2], attributes[3]>>,
                           <<attributes[1], attributes[3], attributes[4]>>>>

-----------------------------------------------------------------------------
(* The claims about the parser, checked under Spec.                          *)

\* The elements of a line of the text.
Words(raw) == SplitWhitespace(Trim(raw))

\* What a line of the text is on its own: None for a line that is skipped,
\* discarded or accepted, Some(the detail of its error) for an invalid line.
LineDetail(raw) ==
    LET w == Words(raw)
        r == CASE w[1] = "v" -> handle_positions_line(None, 0, Tail(w), <<>>)
               [] w[1] = "f" -> handle_face_line(None, 0, Tail(w), <<>>)
               [] w[1] = "vt" -> handle_uv_line(None, 0, Tail(w), <<>>)
               [] w[1] = "vn" -> handle_normal_line(None, 0, Tail(w), <<>>)
    IN IF Skipped(Trim(raw)) \/ w[1] \in IgnoredCommands THEN None
       ELSE IF w[1] \in {"v", "f", "vt", "vn"}
       THEN IF r.ok THEN None ELSE Some(r.err.detail)
       ELSE Some([kind |-> "UnknownCommand", command |-> w[1]])

\* The 1-based numbers of the invalid lines of the text; once from_string
\* has started, lines is data.lines().
InvalidLines == {k \in 1..Len(lines) : LineDetail(lines[k]) # None}

Min(S) == CHOOSE x \in S : \A y \in S : x <= y

Started == pc # "from_string"
Failed == result # None /\ ~result[1].ok
Error == result[1].err

\* C5: from_string stops at the first invalid line of the text: it returns
\* the error of that line without examining a later line, and it returns an
\* Obj only when no line is invalid.
C5_StopsAtFirstInvalidLine ==
    Started =>
        /\ result = None => \A k \in 1..i : k \notin InvalidLines
        /\ (result # None /\ result[1].ok) =>
              InvalidLines = {} /\ i = Len(lines)
        /\ Failed =>
              LET invalid == InvalidLines IN
              /\ invalid # {}
              /\ Error.line = Min(invalid)
              /\ Some(Error.detail) = LineDetail(lines[Min(invalid)])
              /\ i = Min(invalid) - 1

\* Two invalid lines with different errors: the first one's is returned.
C5_Witness ==
    /\ Failed
    /\ Cardinality(InvalidLines) = 2
    /\ Error.line = 1
    /\ LineDetail(lines[2]) # Some(Error.detail)

\* C6: a parse error carries the 1-based number of its line, counted over
\* all lines of the text, and the label given to from_string; the label
\* None is printed as "inline".
C6_ErrorCarriesLineAndLabel ==
    Failed =>
        /\ Error.line \in 1..Len(lines)
        /\ LineDetail(lines[Error.line]) = Some(Error.detail)
        /\ \A k \in 1..(Error.line - 1) : k \notin InvalidLines
        /\ Error.file = file_name
        /\ pc = "done" =>
              /\ Len(stderr) = 1
              /\ stderr[1].line = Error.line
              /\ stderr[1].file =
                    IF file_name = None THEN "inline" ELSE file_name[1]

\* An error on line 2 after a blank line, a comment or a discarded
\* directive, from a text without label.
C6_Witness ==
    /\ pc = "done"
    /\ file_name = None
    /\ Error.line = 2
    /\ Words(lines[1]) \in {<<>>, <<"#", "zz", "1", "2">>, <<"usemtl", "m">>}
    /\ stderr[1].file = "inline"

\* What the operand-count check of a directive must do with count n, given
\* its detail d when the line failed: refuse exactly the counts outside
\* lo..hi, with the expected range and the count.
CountChecked(lo, hi, n, d) ==
    IF n \in lo..hi THEN d.kind # "InvalidOperandCount"
    ELSE d = [kind |-> "InvalidOperandCount",
              expected |-> <<Some(lo), Some(hi)>>, got |-> n]

\* C7: a v line passes the operand-count check iff it has 3 or 4 operands,
\* a vt line iff 1 to 3, a vn line iff exactly 3; any other count n fails
\* with InvalidOperandCount, expected (3,4), (1,3), (3,3), got n.
C7_OperandCounts ==
    Started =>
        /\ \A k \in 1..i :
              LET w == Words(lines[k]) IN
              w # <<>> =>
                 /\ w[1] = "v" => Len(w) - 1 \in 3..4
                 /\ w[1] = "vt" => Len(w) - 1 \in 1..3
                 /\ w[1] = "vn" => Len(w) - 1 = 3
        /\ Failed =>
              LET w == Words(lines[Error.line]) IN
              /\ w[1] = "v" => CountChecked(3, 4, Len(w) - 1, Error.detail)
              /\ w[1] = "vt" => CountChecked(1, 3, Len(w) - 1, Error.detail)
              /\ w[1] = "vn" => CountChecked(3, 3, Len(w) - 1, Error.detail)

\* "v 1.0 2.0" fails with expected (3,4), got 2, at line 1.
C7_Witness ==
    /\ data = "v 1.0 2.0\n"
    /\ Failed
    /\ Error.line = 1
    /\ Error.detail = [kind |-> "InvalidOperandCount",
                       expected |-> <<Some(3), Some(4)>>, got |-> 2]

\* C8: an f line with 3 or more operands passes the operand-count check, and
\* one with fewer fails with InvalidOperandCount whose expected range is 3
\* and no upper bound, and whose got is the count.
C8_FaceCountHasNoUpperBound ==
    Started =>
        /\ \A k \in 1..i :
              LET w == Words(lines[k]) IN
              (w # <<>> /\ w[1] = "f") => Len(w) - 1 >= 3
        /\ Failed =>
              LET w == Words(lines[Error.line]) IN
              w[1] = "f" =>
                 IF Len(w) - 1 >= 3
                 THEN Error.detail.kind # "InvalidOperandCount"
                 ELSE Error.detail = [kind |-> "InvalidOperandCount",
                                      expected |-> <<Some(3), None>>,
                                      got |-> Len(w) - 1]

\* The first elements from_string knows.
KnownCommands == {"v", "vt", "vn", "f", "mtllib", "usemtl", "s", "g", "o"}

\* C9: a line that is neither blank nor a comment and whose first element
\* is no known directive fails with UnknownCommand(that element).
C9_UnknownCommand ==
    Started =>
        /\ \A k \in 1..i :
              LET w == Words(lines[k]) IN
              \/ w = <<>>
              \/ StartsWith(w[1], "#")
              \/ w[1] \in KnownCommands
        /\ Failed =>
              LET w == Words(lines[Error.line]) IN
              /\ w # <<>>
              /\ ~StartsWith(w[1], "#")
              /\ w[1] \notin KnownCommands =>
                    Error.detail = [kind |-> "UnknownCommand", command |-> w[1]]

\* "zz 1 2 3" fails with UnknownCommand("zz").
C9_Witness ==
    /\ data = "zz 1 2 3\n"
    /\ Failed
    /\ Error.detail = [kind |-> "UnknownCommand", command |-> "zz"]

\* The position sub-field of a face operand, parsed.
PositionOf(operand) == ParseU32(Split(operand, "/")[1])

\* The operands of a line all parse and one of them has position index 0.
HasZeroPosition(w) ==
    /\ parse_face_from_line(Tail(w)).ok
    /\ \E k \in 2..Len(w) : PositionOf(w[k]).val = 0

\* C10: an f line of at least 3 operands that all parse and of which one has
\* position index 0 fails with InvalidFaceOperand(0), so that no stored face
\* has a position index 0.
C10_ZeroPositionRejected ==
    Started =>
        /\ \A k \in 1..Len(faces) : \A j \in 1..Len(faces[k].attributes) :
              faces[k].attributes[j].position_index # 0
        /\ \A k \in 1..i :
              LET w == Words(lines[k]) IN
              (w # <<>> /\ w[1] = "f") => ~HasZeroPosition(w)
        /\ Failed =>
              LET w == Words(lines[Error.line]) IN
              (w[1] = "f" /\ Len(w) - 1 >= 3 /\ HasZeroPosition(w)) =>
                 Error.detail = [kind |-> "InvalidFaceOperand", value |-> 0]

\* "f 1 2 0" after a valid v line fails with InvalidFaceOperand(0).
C10_Witness ==
    /\ data = "v 0 0 0\nf 1 2 0\n"
    /\ Failed
    /\ Error.line = 2
    /\ Error.detail = [kind |-> "InvalidFaceOperand", value |-> 0]
    /\ Len(positions) = 1
    /\ faces = <<>>

-----------------------------------------------------------------------------
(* The claims about single lines, checked under SpecLines.                   *)

\* The indices a stored face attribute holds: the position index and the uv
\* and normal indices that are present.
StoredIndices(attribute) ==
    {attribute.position_index}
        \cup {attribute.texture_coordinate_index[k] :
                 k \in 1..Len(attribute.texture_coordinate_index)}
        \cup {attribute.normal_index[k] : k \in 1..Len(attribute.normal_index)}

\* The sub-fields of a face operand, one to three for the operands of the
\* model's texts.
SubFields(operand) == Split(operand, "/")

\* C11: an empty uv or normal sub-field of a face operand is None without
\* error, and every index stored in a face from_string accepted, position,
\* uv or normal, is at least 1: a present sub-field of 0 is rejected.
C11_StoredIndicesArePositive ==
    Started =>
        /\ \A k \in 1..Len(faces) : \A j \in 1..Len(faces[k].attributes) :
              \A x \in StoredIndices(faces[k].attributes[j]) : x >= 1
        /\ Failed =>
              LET w == Words(lines[Error.line]) IN
              (w[1] = "f" /\ Error.detail.kind = "FaceParseIntError") =>
                 \E k \in 2..Len(w) : \E j \in 1..Len(SubFields(w[k])) :
                    /\ j = 1 \/ SubFields(w[k])[j] # ""
                    /\ ~ParseU32(SubFields(w[k])[j]).ok

\* The loop of from_string stands at a line, the next one to examine.
AtLine == pc = "lines" /\ i < Len(lines)

\* The step of the loop over a line that leaves nothing behind: the loop is
\* at the next line, without a record and without an error.
PassedOver ==
    /\ i' = i + 1
    /\ pc' = "lines"
    /\ UNCHANGED <<positions, uvs, normals, faces, result, stderr>>

\* The first element of a line is mtllib, usemtl, s, g or o.
IsDiscarded(raw) ==
    /\ Words(raw) # <<>>
    /\ Words(raw)[1] \in {"mtllib", "usemtl", "s", "g", "o"}

\* C12: a line whose first element is mtllib, usemtl, s, g or o, whatever
\* its operands, gives no error and leaves positions, uvs, normals and faces
\* as they were.
C12_DiscardedDirectives ==
    [][(AtLine /\ IsDiscarded(lines[i + 1])) => PassedOver]_vars

\* "g a b  c" after a v line was passed: the position is still the only
\* record.
C12_Witness ==
    /\ data = "v 0 0 0\ng a b  c\n"
    /\ pc = "lines"
    /\ i = 2
    /\ positions = <<<<0, 0, 0, 1000>>>>
    /\ uvs = <<>> /\ normals = <<>> /\ faces = <<>>
    /\ result = None

\* A line is empty or whitespace only, or its first character that is not
\* whitespace is "#".
IsBlankOrComment(raw) ==
    \/ Words(raw) = <<>>
    \/ Char(Words(raw)[1], 1) = "#"

\* C13: a blank line and a line starting with "#", whatever follows the
\* "#", give no record and no error, and the loop goes on to the next line.
C13_BlankAndCommentSkipped ==
    [][(AtLine /\ IsBlankOrComment(lines[i + 1])) => PassedOver]_vars

\* "# v 1 x", which as a v line would be an error, then a v line that is
\* parsed.
C13_Witness ==
    /\ data = "# v 1 x\nv 0 0 0\n"
    /\ pc = "loaded"
    /\ result[1].ok
    /\ ParsedObj.positions = <<<<0, 0, 0, 1000>>>>

-----------------------------------------------------------------------------
(* The claims about the loaded model, checked under SpecMesh.                *)

\* The output positions as vertices.
OutputVertices ==
    {<<m_positions[3 * k + 1], m_positions[3 * k + 2], m_positions[3 * k + 3]>> :
        k \in 0..(Len(m_positions) \div 3 - 1)}

Least(S) == CHOOSE x \in S : \A y \in S : x <= y
Greatest(S) == CHOOSE x \in S : \A y \in S : x >= y

\* x <= y on f32: false when one of them is NaN.
F32Le(x, y) == x # F32NaN /\ y # F32NaN /\ x <= y

\* The box is the component-wise least and greatest of the output positions
\* and holds each of them.
BoxIsMinMax(box) ==
    \A c \in 1..3 :
       /\ box.min_point[c] = Least({v[c] : v \in OutputVertices})
       /\ box.max_point[c] = Greatest({v[c] : v \in OutputVertices})
       /\ F32Le(box.min_point[c], box.max_point[c])
       /\ \A v \in OutputVertices :
             F32Le(box.min_point[c], v[c]) /\ F32Le(v[c], box.max_point[c])

NoNaNPosition == \A k \in 1..Len(m_positions) : m_positions[k] # F32NaN

\* C14, as stated: bounding_box is None iff the mesh has no position;
\* otherwise its min and max are, per component, the least and the greatest
\* value over all output positions, so min <= max and every position is in
\* the box.
C14_BoundingBoxOfAnyMesh ==
    pc = "model_loaded" =>
        IF m_positions = <<>> THEN state_bounding_box = None
        ELSE state_bounding_box # None /\ BoxIsMinMax(state_bounding_box[1])

\* C14, amended: bounding_box is None iff the mesh has no position;
\* otherwise, when no output position has a NaN component, its min and max
\* are the component-wise least and greatest over all output positions, so
\* min <= max and every position is in the box.
C14_BoundingBoxIsMinMax ==
    pc = "model_loaded" =>
        IF m_positions = <<>> THEN state_bounding_box = None
        ELSE /\ state_bounding_box # None
             /\ NoNaNPosition => BoxIsMinMax(state_bounding_box[1])

\* (0,0,0), (1,0,0), (0,1,0) used by one triangle: min (0,0,0), max (1,1,0).
C14_Witness ==
    /\ pc = "model_loaded"
    /\ data = "v 0 0 0\nv 1 0 0\nv 0 1 0\nf 1 2 3\n"
    /\ state_bounding_box = Some([min_point |-> <<0, 0, 0>>,
                                  max_point |-> <<1000, 1000, 0>>])

\* from_string returned an Obj.
Parsed == result # None /\ result[1].ok

\* C15: a document without v line that from_string accepts, with or without
\* f lines, is converted without a panic to a mesh of zero vertices, whose
\* bounding box is None.
C15_NoPositionGivesEmptyMesh ==
    (Parsed /\ ParsedObj.positions = <<>>) =>
        /\ pc # "panic"
        /\ panic = None
        /\ pc \in {"mesh_done", "model_loaded"} => m_positions = <<>>
        /\ pc = "model_loaded" => state_bounding_box = None

\* The lines of one directive, in the order of the text.
KindLines(kind) ==
    SelectSeq(lines, LAMBDA l : Words(l) # <<>> /\ Words(l)[1] = kind)

\* The records of the lines of one directive, each line handled on its own.
Records(kind, Handle(_, _, _, _)) ==
    LET ls == KindLines(kind) IN
    [k \in 1..Len(ls) |-> Handle(None, 0, Tail(Words(ls[k])), <<>>).val[1]]

\* The document as a function of the four sequences of lines alone.
ObjOfKinds ==
    [positions |-> Records("v", handle_positions_line),
     faces |-> Records("f", handle_face_line),
     normals |-> Records("vn", handle_normal_line),
     uvs |-> Records("vt", handle_uv_line)]

\* The number of distinct attributes before the first occurrence of st[k].
Rank(st, k) ==
    LET first == Least({j \in 1..k : st[j] = st[k]}) IN
    Cardinality({st[j] : j \in 1..(first - 1)})

\* The output vertex number x: its position, normal and uv.
OutputVertex(x) ==
    [position |-> SubSeq(m_positions, 3 * x + 1, 3 * x + 3),
     normal |-> SubSeq(m_normals, 3 * x + 1, 3 * x + 3),
     uv |-> SubSeq(m_uvs, 2 * x + 1, 2 * x + 2)]

\* What an attribute resolves to in the document.
Resolved(obj, attribute) ==
    [position |-> SubSeq(lookup_position(obj, attribute), 1, 3),
     normal |-> lookup_normal(obj, attribute),
     uv |-> SubSeq(lookup_uv(obj, attribute), 1, 2)]

\* The places of the stream whose attribute has an index that panics.
Unresolved(obj, st) == {k \in 1..Len(st) : lookup_panics(obj, st[k]) # {}}

\* C16: faces may name positions, uvs and normals declared later. The
\* document is given by the v, vt, vn and f lines each in their own order,
\* wherever the f lines stand among the others, the indices are resolved
\* only after the whole text is parsed, and the mesh, or the panic, is given
\* by the document alone.
C16_ForwardReferences ==
    /\ pc \notin {"from_string", "lines"} => Parsed
    /\ pc = "loaded" => ParsedObj = ObjOfKinds
    /\ pc = "mesh_done" =>
          LET st == Stream(ParsedObj) IN
          /\ Unresolved(ParsedObj, st) = {}
          /\ Len(indices) = Len(st)
          /\ Len(m_positions) = 3 * Cardinality({st[k] : k \in 1..Len(st)})
          /\ \A k \in 1..Len(st) :
                /\ indices[k] = Rank(st, k)
                /\ OutputVertex(indices[k]) = Resolved(ParsedObj, st[k])
    /\ pc = "panic" =>
          LET st == Stream(ParsedObj)
              bad == Unresolved(ParsedObj, st)
          IN /\ bad # {}
             /\ Len(indices) = Least(bad) - 1
             /\ panic[1] \in lookup_panics(ParsedObj, st[Least(bad)])

\* The faces stand before the positions, uv and normal they name, and the
\* mesh has a vertex with each of them.
C16_Witness ==
    /\ pc = "mesh_done"
    /\ Len(lines) >= 2
    /\ Words(lines[1])[1] = "f"
    /\ Words(lines[Len(lines)])[1] = "vn"
    /\ Len(ParsedObj.positions) = 3
    /\ \E x \in FaceTriples(ParsedObj) :
          x.texture_coordinate_index # None /\ x.normal_index # None
    /\ Len(m_positions) >= 9

-----------------------------------------------------------------------------
(* The claim about a second load, checked under SpecAgain.                   *)

\* The second load of the text is over.
LoadedAgain == previous # None /\ pc \in {"done", "model_loaded"}

\* C17: parsing and converting the same text a second time gives what the
\* first time gave: the same Obj and the same mesh, its arrays and its index
\* list with it, or the same error; nothing the first load left behind
\* changes the second.
C17_SameTextSameOutcome ==
    LoadedAgain => Outcome = previous[1]

\* A mesh of three vertices or more, with an index that occurs again, was
\* built twice.
C17_Witness ==
    /\ LoadedAgain
    /\ pc = "model_loaded"
    /\ Len(m_positions) >= 9
    /\ Len(indices) > Len(m_positions) \div 3
    /\ previous[1].mesh = Some(MeshData)

-----------------------------------------------------------------------------
(* The claims about the output vertices, checked under SpecMesh.             *)

\* C18: the output vertex of an attribute without normal index has the
\* normal (0, 0, 0), and the output vertex of an attribute without uv index
\* has the uv (0, 0).
C18_FallbackNormalAndUv ==
    Converting =>
        LET met == Met IN
        \A k \in 1..Len(indices) :
           /\ met[k].normal_index = None =>
                 OutputVertex(indices[k]).normal = <<0, 0, 0>>
           /\ met[k].texture_coordinate_index = None =>
                 OutputVertex(indices[k]).uv = <<0, 0>>

\* The place in the index list where output index x occurs first.
FirstPlace(x) == Least({k \in 1..Len(indices) : indices[k] = x})

\* C19: output indices are given in first-seen order and never given again
\* or renumbered: an attribute met for the first time gets the number of
\* distinct attributes met before it, which is the number of output
\* vertices at that time, so 0, 1, 2, ... occur first in increasing order
\* and the indices used are exactly 0..V-1 for V output vertices.
C19_FirstSeenOrder ==
    Converting =>
        LET met == Met
            V == Len(m_positions) \div 3
        IN /\ \A k \in 1..Len(indices) : indices[k] = Rank(met, k)
           /\ {indices[k] : k \in 1..Len(indices)} = 0..(V - 1)
           /\ \A x \in 1..(V - 1) : FirstPlace(x - 1) < FirstPlace(x)
           /\ V = Cardinality({met[k] : k \in 1..Len(indices)})

\* Four vertices, and between the first occurrences of two indices an
\* earlier index occurs again.
C19_Witness ==
    /\ pc = "mesh_done"
    /\ Len(m_positions) \div 3 >= 4
    /\ \E j, k, l \in 1..Len(indices) :
          /\ j < k /\ k < l
          /\ FirstPlace(indices[j]) = j
          /\ indices[k] < indices[j]
          /\ FirstPlace(indices[l]) = l

-----------------------------------------------------------------------------
(* The claim about from_file, checked under SpecFile.                        *)

\* from_file returned an error of its own, not one of from_string.
FileError(kind) ==
    Failed /\ "kind" \in DOMAIN Error /\ Error.kind = kind

\* C20: from_file never panics on an I/O problem: a file that cannot be
\* opened or read, or whose contents are not valid UTF-8, gives IoError,
\* and a path that is not valid Unicode gives PathError.
C20_FromFileReturnsIoErrors ==
    /\ panic # None => panic[1].what # UnwrapPanic
    /\ (pc # "from_file" /\ ~path[1].unicode) => FileError("PathError")
    /\ (pc # "from_file" /\ path[1].unicode) =>
          \/ FileError("IoError")
          \/ file_name = Some(path[1].os)

-----------------------------------------------------------------------------
(* The claims about the records of the document.                             *)

\* The loop of from_string accepts a line of one directive.
Accepts(kind) ==
    /\ AtLine
    /\ Words(lines[i + 1]) # <<>>
    /\ Words(lines[i + 1])[1] = kind
    /\ i' = i + 1

\* The array has one record more, after the ones it had.
OneMore(array, array2) ==
    /\ Len(array2) = Len(array) + 1
    /\ SubSeq(array2, 1, Len(array)) = array

\* Every accepted line appends one record to its own array and leaves the
\* three other arrays alone.
AppendsToItsArray ==
    /\ Accepts("v") =>
          OneMore(positions, positions') /\ UNCHANGED <<uvs, normals, faces>>
    /\ Accepts("vt") =>
          OneMore(uvs, uvs') /\ UNCHANGED <<positions, normals, faces>>
    /\ Accepts("vn") =>
          OneMore(normals, normals') /\ UNCHANGED <<positions, uvs, faces>>
    /\ Accepts("f") =>
          OneMore(faces, faces') /\ UNCHANGED <<positions, uvs, normals>>

\* In the Obj returned every array has one record per line of its kind, and
\* the k-th v line is positions[k - 1].
OneRecordPerLine ==
    pc = "loaded" =>
        /\ Len(ParsedObj.positions) = Len(KindLines("v"))
        /\ Len(ParsedObj.uvs) = Len(KindLines("vt"))
        /\ Len(ParsedObj.normals) = Len(KindLines("vn"))
        /\ Len(ParsedObj.faces) = Len(KindLines("f"))
        /\ \A k \in 1..Len(KindLines("v")) :
              ParsedObj.positions[k] = Records("v", handle_positions_line)[k]

\* C21: each accepted v, vt, vn or f line appends exactly one record to the
\* array of its kind and leaves the other arrays and the earlier records
\* unchanged, so that in the Obj returned each array is as long as there
\* are lines of its kind and the k-th v line is positions[k - 1].
C21_EachLineAppendsOneRecord ==
    []OneRecordPerLine /\ [][AppendsToItsArray]_vars

\* Three different positions, a uv, a normal and two faces, all in place.
C21_Witness ==
    /\ pc = "loaded"
    /\ Len(ParsedObj.positions) = 3
    /\ Cardinality({ParsedObj.positions[k] : k \in 1..3}) = 3
    /\ Len(ParsedObj.uvs) = 1
    /\ Len(ParsedObj.normals) = 1
    /\ Len(ParsedObj.faces) = 2
    /\ ParsedObj.faces[1] # ParsedObj.faces[2]

\* The lines of one directive that the loop has accepted so far.
AcceptedLines(kind) ==
    SelectSeq(SubSeq(lines, 1, i),
              LAMBDA l : Words(l) # <<>> /\ Words(l)[1] = kind)

\* The number an operand stands for.
Number(operand) == ParseF32(operand).val

\* C22: a v line with 3 operands gives a position whose w is 1.0 and one
\* with 4 operands keeps its w; a vt line with 1 or 2 operands gives a uv
\* whose missing components are 0.0; the components given are stored in the
\* order of the operands.
C22_DefaultComponents ==
    Started =>
        /\ \A k \in 1..Len(positions) :
              LET w == Words(AcceptedLines("v")[k]) IN
              positions[k] = <<Number(w[2]), Number(w[3]), Number(w[4]),
                               IF Len(w) = 4 THEN 1000 ELSE Number(w[5])>>
        /\ \A k \in 1..Len(uvs) :
              LET w == Words(AcceptedLines("vt")[k]) IN
              uvs[k] = <<Number(w[2]),
                         IF Len(w) >= 3 THEN Number(w[3]) ELSE 0,
                         IF Len(w) >= 4 THEN Number(w[4]) ELSE 0>>

\* "v 0 0 0" has the w 1.0, and "vt 0 1" has the third component 0.0.
C22_Witness ==
    /\ data = "v 0 0 0\nvt 0 1\n"
    /\ pc = "loaded"
    /\ ParsedObj.positions = <<<<0, 0, 0, 1000>>>>
    /\ ParsedObj.uvs = <<<<0, 1000, 0>>>>

-----------------------------------------------------------------------------
(* The claims about operands, checked under SpecOperands.                    *)

\* The operands of a line that are no numbers of the kind the line takes:
\* floats for v, vt and vn, and for f a position sub-field and, when they
\* are present and not empty, a second and a third sub-field.
Malformed(w) ==
    IF w[1] = "f"
    THEN {k \in 2..Len(w) :
            LET parts == SubFields(w[k]) IN
            \/ ~ParseU32(parts[1]).ok
            \/ \E j \in 2..3 :
                  j <= Len(parts) /\ parts[j] # "" /\ ~ParseU32(parts[j]).ok}
    ELSE {k \in 2..Len(w) : ~ParseF32(w[k]).ok}

\* The counts of operands a directive takes.
CountsOf(kind) ==
    CASE kind = "v" -> 3..4 [] kind = "vt" -> 1..3 [] kind = "vn" -> 3..3
      [] kind = "f" -> {n \in 0..8 : n >= 3}

ParseErrorOf(kind) ==
    CASE kind = "v" -> "VertexParseFloatError"
      [] kind = "vt" -> "UVParseFloatError"
      [] kind = "vn" -> "NormalParseFloatError"
      [] kind = "f" -> "FaceParseIntError"

\* What the first malformed sub-field of a face operand is refused for.
FirstFaceError(operand) ==
    LET parts == SubFields(operand)
        j == Least({x \in 1..3 : /\ x <= Len(parts)
                                 /\ x = 1 \/ parts[x] # ""
                                 /\ ~ParseU32(parts[x]).ok})
    IN ParseU32(parts[j]).err

\* C23: the detail of the error of an invalid v, vt, vn or f line is chosen
\* in a fixed order: a wrong operand count gives InvalidOperandCount even
\* when operands are malformed too; else the first malformed operand gives
\* the error of the kind of line; and only when every operand of an f line
\* parses is a position index 0 reported, as InvalidFaceOperand(0).
C23_ErrorOrder ==
    Failed =>
        LET w == Words(lines[Error.line])
            bad == Malformed(w)
        IN w[1] \in {"v", "vt", "vn", "f"} =>
              IF Len(w) - 1 \notin CountsOf(w[1])
              THEN Error.detail.kind = "InvalidOperandCount"
              ELSE IF bad # {}
              THEN /\ Error.detail.kind = ParseErrorOf(w[1])
                   /\ w[1] = "f" =>
                         Error.detail.error = FirstFaceError(w[Least(bad)])
              ELSE Error.detail = [kind |-> "InvalidFaceOperand", value |-> 0]

\* "vn 0 x" has a malformed operand and one operand too few: the count is
\* what is reported.
C23_Witness ==
    /\ data = "vn 0 x\n"
    /\ Failed
    /\ Error.detail = [kind |-> "InvalidOperandCount",
                       expected |-> <<Some(3), Some(3)>>, got |-> 2]

\* The index a sub-field of a face operand stands for: None when the
\* operand has no such sub-field or an empty one.
Field(parts, n) ==
    IF n <= Len(parts) /\ parts[n] # "" THEN Some(ParseU32(parts[n]).val)
    ELSE None

\* C29: the sub-fields of a face operand beyond the third are ignored
\* without error and an empty sub-field at the end is an absent one, so
\* 1/2/3/x is stored as 1/2/3 is, and 1, 1/ and 1// as (1, None, None), one
\* key of the map; an empty position sub-field is a FaceParseIntError.
C29_FaceSubFields ==
    Started =>
        /\ \A k \in 1..Len(faces) :
              LET w == Words(AcceptedLines("f")[k]) IN
              /\ Len(faces[k].attributes) = Len(w) - 1
              /\ \A j \in 1..(Len(w) - 1) :
                    LET parts == SubFields(w[j + 1]) IN
                    faces[k].attributes[j] =
                        [position_index |-> ParseU32(parts[1]).val,
                         texture_coordinate_index |-> Field(parts, 2),
                         normal_index |-> Field(parts, 3)]
        /\ Failed =>
              LET w == Words(lines[Error.line]) IN
              /\ (/\ w[1] = "f"
                  /\ Len(w) - 1 >= 3
                  /\ \E j \in 2..Len(w) : SubFields(w[j])[1] = "") =>
                    Error.detail.kind = "FaceParseIntError"
              /\ (w[1] = "f" /\ Error.detail.kind = "FaceParseIntError") =>
                    Malformed(w) # {}

\* "f 1 1/ 1//" is one attribute three times, and one vertex of the mesh.
C29_Witness ==
    /\ data = "v 0 0 0\nf 1 1/ 1//\n"
    /\ pc = "mesh_done"
    /\ \A j \in 1..3 :
          ParsedObj.faces[1].attributes[j] =
              [position_index |-> 1, texture_coordinate_index |-> None,
               normal_index |-> None]
    /\ indices = <<0, 0, 0>>
    /\ Len(m_positions) = 3

-----------------------------------------------------------------------------
(* The claims about the mesh as a whole, checked under SpecMesh.             *)

\* The sum over the faces from the k-th on of the number of attributes
\* less 2.
RECURSIVE TrianglesFrom(_, _)
TrianglesFrom(obj, k) ==
    IF k > Len(obj.faces) THEN 0
    ELSE Len(obj.faces[k].attributes) - 2 + TrianglesFrom(obj, k + 1)

\* What an attribute resolves to in the document: x, y, z of its position,
\* u, v of its uv, zero for an absent one, and its normal, zero for an
\* absent one, as normalize returns it.
Meant(obj, attribute) ==
    [position |-> SubSeq(obj.positions[attribute.position_index], 1, 3),
     normal |-> normalize(IF attribute.normal_index = None THEN <<0, 0, 0>>
                          ELSE obj.normals[attribute.normal_index[1]]),
     uv |-> IF attribute.texture_coordinate_index = None THEN <<0, 0>>
            ELSE SubSeq(obj.uvs[attribute.texture_coordinate_index[1]], 1, 2)]

C25_ArraysFollowTheMap ==
    Converting =>
        LET V == Cardinality(DOMAIN processed_attributes) IN
        /\ Len(m_positions) = 3 * V
        /\ Len(m_normals) = 3 * V
        /\ Len(m_uvs) = 2 * V
        /\ \A k \in 1..Len(indices) : indices[k] \in 0..(V - 1)

\* The conversion is under way with four vertices out, and the last index
\* pushed is one that was given before.
C25_Witness ==
    /\ pc = "triangles"
    /\ Cardinality(DOMAIN processed_attributes) = 4
    /\ Len(indices) >= 5
    /\ indices[Len(indices)] < 3


-----------------------------------------------------------------------------
\* C26: every face of the faces array, and so of a returned Obj, has at
\* least three attributes; for the face the conversion stands at,
\* `attributes.len() - 1` of triangulate does not underflow, and the face
\* it has triangulated gave len - 2 triangles, at least one.
C26_FacesHaveThreeAttributes ==
    /\ \A k \in 1..Len(faces) : Len(faces[k].attributes) >= 3
    /\ (pc = "faces" /\ f < Len(ParsedObj.faces))
          => /\ Len(ParsedObj.faces[f + 1].attributes) - 1 >= 2
             /\ triangulate_panics(ParsedObj.faces[f + 1].attributes) = {}
    /\ pc = "triangles"
          => /\ Len(triangles) >= 1
             /\ Len(triangles) = Len(ParsedObj.faces[f + 1].attributes) - 2

\* A face of exactly three operands, parsed and triangulated into one
\* triangle.
C26_Witness ==
    /\ pc = "triangles"
    /\ Len(ParsedObj.faces[f + 1].attributes) = 3
    /\ Len(triangles) = 1

-----------------------------------------------------------------------------
\* The load at hand is of the file of the load before with one more v line,
\* which no face references.
Appended ==
    /\ previous # None
    /\ previous[1].mesh # None
    /\ Len(positions) = Len(previous[1].result[1].val.positions) + 1
    /\ \A k \in 1..Len(faces) : \A n \in 1..Len(faces[k].attributes) :
          faces[k].attributes[n].position_index # Len(positions)

\* C27: a document without f line gives no output vertex, an empty index
\* list and no bounding box, whatever its v, vt and vn lines; and the file
\* of a loaded model with one more v line at its end, which no face
\* references, gives the same mesh and the same bounding box, without panic.
C27_UnreferencedContributeNothing ==
    /\ (pc \in {"mesh_done", "model_loaded"} /\ ParsedObj.faces = <<>>)
          => /\ m_positions = <<>>
             /\ m_normals = <<>>
             /\ m_uvs = <<>>
             /\ indices = <<>>
             /\ bounding_box(MeshData) = None
             /\ pc = "model_loaded" => state_bounding_box = None
    /\ (pc = "panic" /\ previous # None) => ~Appended
    /\ (pc = "model_loaded" /\ Appended)
          => /\ Outcome.mesh = previous[1].mesh
             /\ Outcome.bounding_box = previous[1].bounding_box
             /\ state_meshes = previous[1].state.meshes
             /\ state_objects = previous[1].state.objects

\* A model of three vertices loaded again with a fourth position, outside
\* its box, that no face references.
C27_Witness ==
    /\ pc = "model_loaded"
    /\ Appended
    /\ positions[Len(positions)] = <<9000, 9000, 9000, 1000>>
    /\ Len(m_positions) = 9
    /\ state_bounding_box # None

-----------------------------------------------------------------------------
\* from_file failed: it returned an Err, or it panicked on the read.
FromFileFailed ==
    \/ pc \in {"error", "done"}
    \/ pc = "panic" /\ panic[1].what = UnwrapPanic

\* C28: when from_file fails in a call of load_model that follows another,
\* the bounding box, the meshes and the objects of the state are those the
\* call before left, and the process has not panicked.
C28_FailedLoadKeepsState ==
    (previous # None /\ FromFileFailed)
        => /\ State = previous[1].state
           /\ pc # "panic"

\* The part of C28 for the errors from_file returns.
C28_ReturnedErrorKeepsState ==
    (previous # None /\ pc \in {"error", "done"})
        => /\ State = previous[1].state
           /\ panic = None

-----------------------------------------------------------------------------
\* C30: Targa::from_file does not panic; a file shorter than 18 bytes, or
\* shorter than 18 bytes plus the width * height * bits_per_pixel / 8 bytes
\* its header declares, gives InvalidHeader when it was read; and on success
\* bytes has 3 * width * height entries.
C30_NeverIndexesOutside ==
    targa # None =>
        /\ pc # "panic"
        /\ (pc = "targa_done" /\ targa.result[1].ok)
              => /\ Len(targa.result[1].val.bytes)
                      = 3 * targa.result[1].val.width * targa.result[1].val.height
                 /\ Len(targa.data) >= 18 + number_of_bytes(targa.header[1])

\* The part of C30 for the files Targa::from_file accepts.
C30_SuccessLength ==
    (targa # None /\ pc = "targa_done" /\ targa.result[1].ok)
        => /\ Len(targa.result[1].val.bytes)
                = 3 * targa.result[1].val.width * targa.result[1].val.height
           /\ targa.result[1].val.bytes # <<>>
                => targa.result[1].val.bytes[1] = targa.data[19]

=============================================================================
